---------------------------- MODULE Spec2Model ----------------------------
(***************************************************************************)
(* Model of the inspector-protocol binding of rusty_v8:                    *)
(*   - the Binary / StringUtil codecs of src/deno_inspector/string_util.*  *)
(*   - the crdtp FFI surface of src/crdtp_binding.cc (Dispatchable,        *)
(*     DispatchResponse, UberDispatcher, DispatchResult, FrontendChannel). *)
(* Bytes and chars are naturals in 0..255; a std::string, a span and a     *)
(* std::vector<uint8_t> are sequences of them.                             *)
(***************************************************************************)
EXTENDS Integers, Sequences, FiniteSets, TLC

VARIABLES
  \* ---- Binary codec harness (string_util.cc)
  pc,        \* position of the codec harness
  bytes_,    \* Binary::bytes_ of the Binary under test
  base64,    \* the String handed to Binary::fromBase64
  textFrom,  \* "toBase64" when base64 was produced by bytes_.toBase64(), else "caller"
  decoded,   \* bytes of the Binary returned by Binary::fromBase64
  success,   \* the bool written through the success out-parameter
  view,      \* the v8_inspector::StringView (or UTF-16 buffer) under test
  utf8,      \* the String returned by StringViewToUtf8 / fromUTF16, and by which
  \* ---- DispatchResponse wrappers (crdtp_binding.cc)
  resp,      \* slot -> NoResp or a live DispatchResponseWrapper with how it was built
  out,       \* the caller's buffer after the last crdtp__DispatchResponse__messageCopy
  ser,       \* the Serializable last returned by an envelope builder, NoSer when freed
  \* ---- Dispatchable / UberDispatcher / DispatchResult (crdtp_binding.cc)
  registry,  \* the method names with a handler, in registration order
  disp,      \* NoDisp or the live Dispatchable with the command it was built from
  dresult,   \* NoResult or the live DispatchResultWrapper
  nDispatch, \* Dispatch calls made so far
  handled,   \* the handler executions so far
  chan,      \* the foreign callbacks the channel trampoline has invoked so far
  \* ---- Serializable objects and the FrontendChannel (crdtp_binding.cc)
  heap,      \* the Serializable objects allocated so far; a pointer is an index, 0 is nullptr
  held,      \* the pointers the foreign side owns and has to delete
  fault,     \* TRUE once `delete` has been applied to an object already freed
  probe,     \* what the serialization calls on the object under observation returned
  calls,     \* the calls C++ code has made on the FrontendChannel, in order
  \* ---- JSON / CBOR conversion (crdtp_binding.cc)
  conv_in,   \* the JSON text handed to crdtp__json__ConvertJSONToCBOR
  vec_u8,    \* the std::vector<uint8_t> handed to it as its output
  conv_ret,  \* the bool crdtp__json__ConvertJSONToCBOR returned, NoRet before the call
  c2j_in,    \* the CBOR bytes at hand for crdtp__json__ConvertCBORToJSON, and whence
  c2j_vec,   \* the std::vector<uint8_t> handed to it as its output
  c2j_ret,   \* the bool it returned, NoRet before the call
  \* ---- Binary values and their shared buffers (string_util.h, string_util.cc)
  source,    \* the caller's bytes that Binary::fromSpan is handed; the caller may rewrite them
  bufs,      \* the vectors made by std::make_shared, each with its use count
  bins,      \* the Binary objects made so far: the buffer each points to, and how it was made
  b64,       \* the String last returned by toBase64(), and for which Binary
  wire,      \* the CBOR bytes written by Serialize or received from the peer
  deser      \* what ProtocolTypeTraits<Binary>::Deserialize returned for them

codecVars == <<pc, bytes_, base64, textFrom, decoded, success, view, utf8>>
respVars == <<resp, out, ser>>
dispVars == <<registry, disp, dresult, nDispatch, handled, chan>>
msgVars == <<heap, held, fault, probe, calls>>
convVars == <<conv_in, vec_u8, conv_ret, c2j_in, c2j_vec, c2j_ret>>
binVars == <<source, bufs, bins, b64, wire, deser>>
vars == <<pc, bytes_, base64, textFrom, decoded, success, view, utf8, resp, out, ser,
          registry, disp, dresult, nDispatch, handled, chan,
          heap, held, fault, probe, calls, conv_in, vec_u8, conv_ret,
          c2j_in, c2j_vec, c2j_ret, source, bufs, bins, b64, wire, deser>>

(***************************************************************************)
(* Bounds and input samples                                                *)
(***************************************************************************)
MaxLen == 4       \* longest byte buffer handed to Binary::fromSpan
MaxText == 4      \* longest caller-written text handed to Binary::fromBase64
MaxUnits == 3     \* longest StringView / UTF-16 buffer handed to StringUtil
MaxJson == 3      \* longest text drawn char by char for crdtp__json__ConvertJSONToCBOR
MaxCbor == 3      \* longest message drawn byte by byte for crdtp__json__ConvertCBORToJSON
MaxMsg == 2       \* longest message handed to a DispatchResponse error constructor
MaxHandlers == 2  \* most method names registered with the UberDispatcher
MaxDispatch == 2  \* most Dispatch calls made in one run
MaxRuns == 2      \* most Run calls on one DispatchResult

\* Bytes whose 6-bit groups reach the ends of the alphabet ('A', '+', '/').
ByteSamples == {0, 1, 62, 77, 128, 170, 251, 255}
\* 'A' 'z' '/' are alphabet characters, '=' is padding, '-' '\n' 0xFF are not
\* in the RFC 4648 alphabet.
CharSamples == {65, 122, 47, 61, 45, 10, 255}

RECURSIVE SeqsUpTo(_, _)
SeqsUpTo(S, n) ==
  IF n = 0 THEN {<<>>}
  ELSE LET shorter == SeqsUpTo(S, n - 1)
       IN  shorter \cup {Append(s, x) : s \in {t \in shorter : Len(t) = n - 1}, x \in S}

Buffers == SeqsUpTo(ByteSamples, MaxLen)
Texts == SeqsUpTo(CharSamples, MaxText)

\* UTF-16 code units: 'A', U+00E9, U+20AC, the high surrogates 0xD83D and
\* 0xDBFF, the low surrogates 0xDC00 and 0xDE00.
UnitSamples == {65, 233, 8364, 55357, 56319, 56320, 56832}
\* Latin-1 chars: 'A', 0x80, 0xFF
Latin1Samples == {65, 128, 255}
Views ==
  {[is8Bit |-> FALSE, chars |-> c] : c \in SeqsUpTo(UnitSamples, MaxUnits)}
    \cup {[is8Bit |-> TRUE, chars |-> c] : c \in SeqsUpTo(Latin1Samples, MaxUnits)}

\* Message bytes: a NUL (std::string(msg, len) keeps it) and 'e'.
MsgBytes == {0, 101}
Messages == SeqsUpTo(MsgBytes, MaxMsg)
\* The two DispatchResponseWrapper objects the caller holds at most.
Slots == {"r1", "r2"}
CallIds == {0, 7}

(***************************************************************************)
(* The values of each part's variables while another part is exercised     *)
(***************************************************************************)
NoView == [is8Bit |-> TRUE, chars |-> <<>>]
NoString == [by |-> "none", bytes |-> <<>>]

IdleCodec ==
  /\ pc = "idle"
  /\ bytes_ = <<>>
  /\ base64 = <<>>
  /\ textFrom = "none"
  /\ decoded = <<>>
  /\ success = FALSE
  /\ view = NoView
  /\ utf8 = NoString

NoResp == [live |-> FALSE]
NoOut == [of |-> "none"]
NoSer == [kind |-> "none"]

IdleResp ==
  /\ resp = [s \in Slots |-> NoResp]
  /\ out = NoOut
  /\ ser = NoSer

NoDisp == [live |-> FALSE]
NoResult == [live |-> FALSE]

IdleDisp ==
  /\ registry = <<>>
  /\ disp = NoDisp
  /\ dresult = NoResult
  /\ nDispatch = 0
  /\ handled = <<>>
  /\ chan = <<>>

NoProbe == [of |-> 0]

IdleMsg ==
  /\ heap = <<>>
  /\ held = {}
  /\ fault = FALSE
  /\ probe = NoProbe
  /\ calls = <<>>

NoRet == [of |-> "none"]
NoBytes == [from |-> "none", bytes |-> <<>>]

IdleConv ==
  /\ conv_in = <<>>
  /\ vec_u8 = <<>>
  /\ conv_ret = NoRet
  /\ c2j_in = NoBytes
  /\ c2j_vec = <<>>
  /\ c2j_ret = NoRet

NoText == [of |-> 0, text |-> <<>>]
NoWire == [from |-> "none"]
NoDeser == [from |-> "none"]

IdleBin ==
  /\ source = <<>>
  /\ bufs = <<>>
  /\ bins = <<>>
  /\ b64 = NoText
  /\ wire = NoWire
  /\ deser = NoDeser

(***************************************************************************)
(* Fixed-width integer arithmetic of the C++ code                          *)
(***************************************************************************)
\* A uint32_t is kept as its two 16-bit halves, [hi, lo], so that the full
\* 32-bit width (and the wrap of << past bit 31) is computed exactly.
U32(x) == [hi |-> (x \div 65536) % 65536, lo |-> x % 65536]

RECURSIVE BitAnd(_, _)
BitAnd(a, b) ==
  IF a = 0 \/ b = 0 THEN 0
  ELSE 2 * BitAnd(a \div 2, b \div 2) + (IF a % 2 = 1 /\ b % 2 = 1 THEN 1 ELSE 0)

RECURSIVE BitOr(_, _)
BitOr(a, b) ==
  IF a = 0 THEN b
  ELSE IF b = 0 THEN a
  ELSE 2 * BitOr(a \div 2, b \div 2) + (IF a % 2 = 1 \/ b % 2 = 1 THEN 1 ELSE 0)

\* u << n on uint32_t: bits shifted past bit 31 are lost
RECURSIVE U32Shl(_, _)
U32Shl(u, n) ==
  IF n = 0 THEN u
  ELSE U32Shl([hi |-> (2 * u.hi + (2 * u.lo) \div 65536) % 65536,
               lo |-> (2 * u.lo) % 65536], n - 1)

\* u >> n on uint32_t
RECURSIVE U32Shr(_, _)
U32Shr(u, n) ==
  IF n = 0 THEN u
  ELSE U32Shr([hi |-> u.hi \div 2,
               lo |-> u.lo \div 2 + (u.hi % 2) * 32768], n - 1)

\* u | v on uint32_t
U32Or(u, v) == [hi |-> BitOr(u.hi, v.hi), lo |-> BitOr(u.lo, v.lo)]

\* u & m for a mask m below 2^16 (0x3F, 0xFF): the result fits 16 bits
U32Mask(u, m) == BitAnd(u.lo, m)

(***************************************************************************)
(* Binary::toBase64                                                        *)
(***************************************************************************)
\* The RFC 4648 URL-safe alphabet: '-' and '_' in place of '+' and '/'.
kBase64CharsUrlSafe ==
  <<  65,  66,  67,  68,  69,  70,  71,  72,  73,  74,  75,  76,  77,  78,  79,  80,
      81,  82,  83,  84,  85,  86,  87,  88,  89,  90,  97,  98,  99, 100, 101, 102,
     103, 104, 105, 106, 107, 108, 109, 110, 111, 112, 113, 114, 115, 116, 117, 118,
     119, 120, 121, 122,  48,  49,  50,  51,  52,  53,  54,  55,  56,  57,  45,  95 >>

\* "ABCDEFGHIJKLMNOPQRSTUVWXYZabcdefghijklmnopqrstuvwxyz0123456789+/"
kBase64Chars ==
  <<  65,  66,  67,  68,  69,  70,  71,  72,  73,  74,  75,  76,  77,  78,  79,  80,
      81,  82,  83,  84,  85,  86,  87,  88,  89,  90,  97,  98,  99, 100, 101, 102,
     103, 104, 105, 106, 107, 108, 109, 110, 111, 112, 113, 114, 115, 116, 117, 118,
     119, 120, 121, 122,  48,  49,  50,  51,  52,  53,  54,  55,  56,  57,  43,  47 >>

\* kBase64Chars[idx] with the 0-based index of the C array
Base64Char(idx) == kBase64Chars[idx + 1]

\* The loop of Binary::toBase64 from 0-based index i on; data[i] is data[i + 1] here.
RECURSIVE toBase64Loop(_, _, _)
toBase64Loop(data, i, result) ==
  LET len == Len(data) IN
  IF ~(i < len) THEN result
  ELSE
    LET n0 == U32Shl(U32(data[i + 1]), 16)
        n1 == IF i + 1 < len THEN U32Or(n0, U32Shl(U32(data[i + 2]), 8)) ELSE n0
        n  == IF i + 2 < len THEN U32Or(n1, U32(data[i + 3])) ELSE n1
        c1 == Base64Char(U32Mask(U32Shr(n, 18), 63))
        c2 == Base64Char(U32Mask(U32Shr(n, 12), 63))
        c3 == IF i + 1 < len THEN Base64Char(U32Mask(U32Shr(n, 6), 63)) ELSE 61
        c4 == IF i + 2 < len THEN Base64Char(U32Mask(n, 63)) ELSE 61
    IN  toBase64Loop(data, i + 3, result \o <<c1, c2, c3, c4>>)

\* The encoding without its trailing '=' chars (RFC 4648 section 3.2 allows
\* an encoder to omit them).
Binary_toBase64_unpadded(data) ==
  LET s == toBase64Loop(data, 0, <<>>)
  IN  SelectSeq(s, LAMBDA c : c # 61)

Binary_toBase64(data) == toBase64Loop(data, 0, <<>>)

(***************************************************************************)
(* Binary::fromBase64                                                      *)
(***************************************************************************)
kBase64DecodeTable ==
  << 255, 255, 255, 255, 255, 255, 255, 255, 255, 255, 255, 255, 255, 255, 255, 255,
     255, 255, 255, 255, 255, 255, 255, 255, 255, 255, 255, 255, 255, 255, 255, 255,
     255, 255, 255, 255, 255, 255, 255, 255, 255, 255, 255,  62, 255, 255, 255,  63,
      52,  53,  54,  55,  56,  57,  58,  59,  60,  61, 255, 255, 255, 255, 255, 255,
     255,   0,   1,   2,   3,   4,   5,   6,   7,   8,   9,  10,  11,  12,  13,  14,
      15,  16,  17,  18,  19,  20,  21,  22,  23,  24,  25, 255, 255, 255, 255, 255,
     255,  26,  27,  28,  29,  30,  31,  32,  33,  34,  35,  36,  37,  38,  39,  40,
      41,  42,  43,  44,  45,  46,  47,  48,  49,  50,  51, 255, 255, 255, 255, 255,
     255, 255, 255, 255, 255, 255, 255, 255, 255, 255, 255, 255, 255, 255, 255, 255,
     255, 255, 255, 255, 255, 255, 255, 255, 255, 255, 255, 255, 255, 255, 255, 255,
     255, 255, 255, 255, 255, 255, 255, 255, 255, 255, 255, 255, 255, 255, 255, 255,
     255, 255, 255, 255, 255, 255, 255, 255, 255, 255, 255, 255, 255, 255, 255, 255,
     255, 255, 255, 255, 255, 255, 255, 255, 255, 255, 255, 255, 255, 255, 255, 255,
     255, 255, 255, 255, 255, 255, 255, 255, 255, 255, 255, 255, 255, 255, 255, 255,
     255, 255, 255, 255, 255, 255, 255, 255, 255, 255, 255, 255, 255, 255, 255, 255,
     255, 255, 255, 255, 255, 255, 255, 255, 255, 255, 255, 255, 255, 255, 255, 255 >>

\* Returning the bytes decoded so far together with the failure flag.
fromBase64FailPartial(bytes) == [success |-> FALSE, bytes |-> bytes]

\* `*success = false; return Binary();` : the default Binary holds an empty vector.
fromBase64Fail(bytes) == [success |-> FALSE, bytes |-> <<>>]

\* The range-for of Binary::fromBase64 from the k-th char (1-based) on.
RECURSIVE fromBase64Loop(_, _, _, _, _)
fromBase64Loop(text, k, buffer, bits_collected, bytes) ==
  IF k > Len(text) THEN [success |-> TRUE, bytes |-> bytes]
  ELSE
    LET c == text[k] IN
    IF c = 61 THEN [success |-> TRUE, bytes |-> bytes]
    ELSE
      LET val == kBase64DecodeTable[c + 1] IN
      IF val = 255 THEN fromBase64Fail(bytes)
      ELSE
        LET buffer2 == U32Or(U32Shl(buffer, 6), U32(val))
            bits2   == bits_collected + 6
        IN  IF bits2 >= 8
            THEN fromBase64Loop(text, k + 1, buffer2, bits2 - 8,
                                Append(bytes, U32Mask(U32Shr(buffer2, bits2 - 8), 255)))
            ELSE fromBase64Loop(text, k + 1, buffer2, bits2, bytes)

\* A decoder that first rejects a text whose length is not a multiple of 4.
Binary_fromBase64_strict(text) ==
  IF Len(text) % 4 # 0 THEN fromBase64Fail(<<>>)
  ELSE fromBase64Loop(text, 1, U32(0), 0, <<>>)

Binary_fromBase64(text) == fromBase64Loop(text, 1, U32(0), 0, <<>>)

(***************************************************************************)
(* StringUtil::fromUTF16 and StringUtil::StringViewToUtf8                  *)
(***************************************************************************)
\* The code unit after data[i] read without the test `i + 1 < length`: past
\* the end of the buffer the read yields what the memory holds, here 0xDC00.
LowAfter_noBound(data, i, length) ==
  IF data[i + 1] >= 55296 /\ data[i + 1] <= 56319
  THEN (IF i + 1 < length THEN data[i + 2] ELSE 56320)
  ELSE -1

\* `low = data[i + 1]` (0-based) when data[i] is a high surrogate and i + 1
\* is inside the buffer, -1 when the code does not read it.
LowAfter(data, i, length) ==
  IF data[i + 1] >= 55296 /\ data[i + 1] <= 56319 /\ i + 1 < length
  THEN data[i + 2]
  ELSE -1

\* The pair composed without the 0x10000 offset.
ComposeSurrogates_noOffset(high, low) == (high - 55296) * 1024 + (low - 56320)

\* 0x10000 + ((code_point - 0xD800) << 10) + (low - 0xDC00); the shifted
\* value is below 2^20, so nothing is lost in uint32_t
ComposeSurrogates(high, low) == 65536 + (high - 55296) * 1024 + (low - 56320)

\* The chars pushed for one code point; static_cast<char> keeps the low 8 bits.
Utf8Encode(code_point) ==
  IF code_point < 128 THEN <<code_point>>
  ELSE IF code_point < 2048
       THEN <<BitOr(192, code_point \div 64) % 256,
              BitOr(128, BitAnd(code_point, 63))>>
  ELSE IF code_point < 65536
       THEN <<BitOr(224, code_point \div 4096) % 256,
              BitOr(128, BitAnd(code_point \div 64, 63)),
              BitOr(128, BitAnd(code_point, 63))>>
  ELSE <<BitOr(240, code_point \div 262144) % 256,
         BitOr(128, BitAnd(code_point \div 4096, 63)),
         BitOr(128, BitAnd(code_point \div 64, 63)),
         BitOr(128, BitAnd(code_point, 63))>>

\* The loop with `i++` taken after every high surrogate that has a unit
\* behind it, paired or not.
RECURSIVE fromUTF16Loop_skip(_, _, _, _)
fromUTF16Loop_skip(data, length, i, result) ==
  IF ~(i < length) THEN result
  ELSE
    LET low == LowAfter(data, i, length)
        paired == low >= 56320 /\ low <= 57343
        code_point == IF paired THEN ComposeSurrogates(data[i + 1], low) ELSE data[i + 1]
        i2 == IF low # -1 THEN i + 1 ELSE i
    IN  fromUTF16Loop_skip(data, length, i2 + 1, result \o Utf8Encode(code_point))

\* The for loop of StringUtil::fromUTF16 from 0-based index i on.
RECURSIVE fromUTF16Loop(_, _, _, _)
fromUTF16Loop(data, length, i, result) ==
  IF ~(i < length) THEN result
  ELSE
    LET low == LowAfter(data, i, length)
        paired == low >= 56320 /\ low <= 57343
        code_point == IF paired THEN ComposeSurrogates(data[i + 1], low) ELSE data[i + 1]
        i2 == IF paired THEN i + 1 ELSE i
    IN  fromUTF16Loop(data, length, i2 + 1, result \o Utf8Encode(code_point))

StringUtil_fromUTF16(data, length) == fromUTF16Loop(data, length, 0, <<>>)

\* StringUtil::fromUTF16LE(data, length)
StringUtil_fromUTF16LE(data, length) == StringUtil_fromUTF16(data, length)

\* The 8-bit branch routed through the transcoder.
StringUtil_StringViewToUtf8_transcode(v) ==
  IF Len(v.chars) = 0 THEN <<>>
  ELSE StringUtil_fromUTF16(v.chars, Len(v.chars))

\* StringUtil::StringViewToUtf8(view)
StringUtil_StringViewToUtf8(v) ==
  IF Len(v.chars) = 0 THEN <<>>
  ELSE IF v.is8Bit THEN SubSeq(v.chars, 1, Len(v.chars))
  ELSE StringUtil_fromUTF16(v.chars, Len(v.chars))

(***************************************************************************)
(* DispatchResponse (v8_crdtp, crdtp/dispatch.h): a code and a message.    *)
(***************************************************************************)
DispatchCode_SUCCESS == 1
DispatchCode_FALL_THROUGH == 2
DispatchCode_PARSE_ERROR == -32700
DispatchCode_INVALID_REQUEST == -32600
DispatchCode_METHOD_NOT_FOUND == -32601
DispatchCode_INVALID_PARAMS == -32602
DispatchCode_SERVER_ERROR == -32000

ErrorCodes ==
  {DispatchCode_PARSE_ERROR, DispatchCode_INVALID_REQUEST, DispatchCode_METHOD_NOT_FOUND,
   DispatchCode_INVALID_PARAMS, DispatchCode_SERVER_ERROR}

DispatchResponse_Success == [code |-> DispatchCode_SUCCESS, message |-> <<>>]
DispatchResponse_FallThrough == [code |-> DispatchCode_FALL_THROUGH, message |-> <<>>]
DispatchResponse_ParseError(message) ==
  [code |-> DispatchCode_PARSE_ERROR, message |-> message]
DispatchResponse_InvalidRequest(message) ==
  [code |-> DispatchCode_INVALID_REQUEST, message |-> message]
DispatchResponse_MethodNotFound(message) ==
  [code |-> DispatchCode_METHOD_NOT_FOUND, message |-> message]
DispatchResponse_InvalidParams(message) ==
  [code |-> DispatchCode_INVALID_PARAMS, message |-> message]
DispatchResponse_ServerError(message) ==
  [code |-> DispatchCode_SERVER_ERROR, message |-> message]

DispatchResponse_IsSuccess(r) == r.code = DispatchCode_SUCCESS
DispatchResponse_IsFallThrough(r) == r.code = DispatchCode_FALL_THROUGH
DispatchResponse_IsError(r) == r.code \in ErrorCodes
DispatchResponse_Code(r) == r.code
DispatchResponse_Message(r) == r.message

\* The states a moved-from DispatchResponse may be left in: the code is a
\* scalar and is copied; the std::string is valid but unspecified (empty, or
\* still holding its bytes).
\* A move that resets the whole response, code included.
MovedFrom_reset(r) == {DispatchResponse_Success}

MovedFrom(r) == {[code |-> r.code, message |-> m] : m \in {<<>>, r.message}}

(***************************************************************************)
(* The crdtp__DispatchResponse__* functions of crdtp_binding.cc            *)
(***************************************************************************)
\* std::string(msg, len): the first len bytes at msg, NULs included
StdStringOfLen(msg, len) == SubSeq(msg, 1, len)

\* std::string(msg): the bytes at msg up to the first NUL
RECURSIVE StdStringOfCStr(_, _)
StdStringOfCStr(msg, len) ==
  IF len = 0 \/ msg = <<>> \/ msg[1] = 0 THEN <<>>
  ELSE <<msg[1]>> \o StdStringOfCStr(Tail(msg), len - 1)

DispatchResponseWrapper(r) == [inner |-> r]

crdtp__DispatchResponse__Success == DispatchResponseWrapper(DispatchResponse_Success)

crdtp__DispatchResponse__FallThrough ==
  DispatchResponseWrapper(DispatchResponse_FallThrough)

\* The constructor with the message cut at its first NUL.
crdtp__DispatchResponse__ParseError_cstr(msg, len) ==
  DispatchResponseWrapper(DispatchResponse_ParseError(StdStringOfCStr(msg, len)))

crdtp__DispatchResponse__ParseError(msg, len) ==
  DispatchResponseWrapper(DispatchResponse_ParseError(StdStringOfLen(msg, len)))

crdtp__DispatchResponse__InvalidRequest(msg, len) ==
  DispatchResponseWrapper(DispatchResponse_InvalidRequest(StdStringOfLen(msg, len)))

crdtp__DispatchResponse__MethodNotFound(msg, len) ==
  DispatchResponseWrapper(DispatchResponse_MethodNotFound(StdStringOfLen(msg, len)))

crdtp__DispatchResponse__InvalidParams(msg, len) ==
  DispatchResponseWrapper(DispatchResponse_InvalidParams(StdStringOfLen(msg, len)))

crdtp__DispatchResponse__ServerError(msg, len) ==
  DispatchResponseWrapper(DispatchResponse_ServerError(StdStringOfLen(msg, len)))

crdtp__DispatchResponse__isSuccess(self) == DispatchResponse_IsSuccess(self.inner)

crdtp__DispatchResponse__isError(self) == DispatchResponse_IsError(self.inner)

\* The predicate answering for the error variants (a pasted body).
crdtp__DispatchResponse__isFallThrough_pasted(self) ==
  DispatchResponse_IsError(self.inner)

crdtp__DispatchResponse__isFallThrough(self) ==
  DispatchResponse_IsFallThrough(self.inner)

crdtp__DispatchResponse__code(self) == DispatchResponse_Code(self.inner)

crdtp__DispatchResponse__messageLen(self) == Len(DispatchResponse_Message(self.inner))

\* memcpy(out, src, n): the first n bytes of buf are overwritten
Memcpy(buf, src, n) == [i \in 1..Len(buf) |-> IF i <= n THEN src[i] ELSE buf[i]]

\* The buffer `buf` after crdtp__DispatchResponse__messageCopy(self, buf)
crdtp__DispatchResponse__messageCopy(self, buf) ==
  LET msg == DispatchResponse_Message(self.inner)
  IN  Memcpy(buf, msg, Len(msg))

(***************************************************************************)
(* Envelope builders over a DispatchResponse (crdtp/dispatch.h)            *)
(***************************************************************************)
CreateErrorResponse(call_id, r) ==
  [kind |-> "response", hasId |-> TRUE, id |-> call_id,
   error |-> [code |-> r.code, message |-> r.message]]

CreateErrorNotification(r) ==
  [kind |-> "notification", hasId |-> FALSE, id |-> 0,
   error |-> [code |-> r.code, message |-> r.message]]

(***************************************************************************)
(* DispatchResponse harness: the caller builds, reads, consumes and frees  *)
(* wrappers. A slot remembers the constructor and arguments that built it. *)
(***************************************************************************)
InitResp ==
  /\ IdleBin
  /\ IdleConv
  /\ IdleCodec
  /\ IdleResp
  /\ IdleDisp
  /\ IdleMsg

Built(w, ctor, msg, len) ==
  [live |-> TRUE, w |-> w, ctor |-> ctor, msg |-> msg, len |-> len, moved |-> FALSE]

\* Preconditions of every wrapper operation of the harness: the Serializable
\* of the previous builder call has been freed.
RespReady == ser = NoSer

New_Success(s) ==
  /\ RespReady /\ ~resp[s].live
  /\ resp' = [resp EXCEPT ![s] = Built(crdtp__DispatchResponse__Success, "Success", <<>>, 0)]
  /\ out' = NoOut
  /\ UNCHANGED <<ser, codecVars, convVars, binVars, dispVars, msgVars>>

New_FallThrough(s) ==
  /\ RespReady /\ ~resp[s].live
  /\ resp' = [resp EXCEPT ![s] =
                Built(crdtp__DispatchResponse__FallThrough, "FallThrough", <<>>, 0)]
  /\ out' = NoOut
  /\ UNCHANGED <<ser, codecVars, convVars, binVars, dispVars, msgVars>>

New_ParseError(s, msg) ==
  /\ RespReady /\ ~resp[s].live
  /\ resp' = [resp EXCEPT ![s] =
                Built(crdtp__DispatchResponse__ParseError(msg, Len(msg)),
                      "ParseError", msg, Len(msg))]
  /\ out' = NoOut
  /\ UNCHANGED <<ser, codecVars, convVars, binVars, dispVars, msgVars>>

New_InvalidRequest(s, msg) ==
  /\ RespReady /\ ~resp[s].live
  /\ resp' = [resp EXCEPT ![s] =
                Built(crdtp__DispatchResponse__InvalidRequest(msg, Len(msg)),
                      "InvalidRequest", msg, Len(msg))]
  /\ out' = NoOut
  /\ UNCHANGED <<ser, codecVars, convVars, binVars, dispVars, msgVars>>

New_MethodNotFound(s, msg) ==
  /\ RespReady /\ ~resp[s].live
  /\ resp' = [resp EXCEPT ![s] =
                Built(crdtp__DispatchResponse__MethodNotFound(msg, Len(msg)),
                      "MethodNotFound", msg, Len(msg))]
  /\ out' = NoOut
  /\ UNCHANGED <<ser, codecVars, convVars, binVars, dispVars, msgVars>>

New_InvalidParams(s, msg) ==
  /\ RespReady /\ ~resp[s].live
  /\ resp' = [resp EXCEPT ![s] =
                Built(crdtp__DispatchResponse__InvalidParams(msg, Len(msg)),
                      "InvalidParams", msg, Len(msg))]
  /\ out' = NoOut
  /\ UNCHANGED <<ser, codecVars, convVars, binVars, dispVars, msgVars>>

New_ServerError(s, msg) ==
  /\ RespReady /\ ~resp[s].live
  /\ resp' = [resp EXCEPT ![s] =
                Built(crdtp__DispatchResponse__ServerError(msg, Len(msg)),
                      "ServerError", msg, Len(msg))]
  /\ out' = NoOut
  /\ UNCHANGED <<ser, codecVars, convVars, binVars, dispVars, msgVars>>

\* crdtp__DispatchResponse__DELETE(self)
Delete_Response(s) ==
  /\ RespReady /\ resp[s].live
  /\ resp' = [resp EXCEPT ![s] = NoResp]
  /\ out' = NoOut
  /\ UNCHANGED <<ser, codecVars, convVars, binVars, dispVars, msgVars>>

\* The caller allocates messageLen(self) bytes (0xAA here) and has them filled.
Do_messageCopy(s) ==
  /\ RespReady /\ resp[s].live
  /\ LET buf == [i \in 1..crdtp__DispatchResponse__messageLen(resp[s].w) |-> 170]
     IN  out' = [of |-> s, bytes |-> crdtp__DispatchResponse__messageCopy(resp[s].w, buf)]
  /\ UNCHANGED <<resp, ser, codecVars, convVars, binVars, dispVars, msgVars>>

\* crdtp__CreateErrorResponse(call_id, response): std::move(response->inner)
\* leaves the wrapper alive and its inner response moved-from.
Do_CreateErrorResponse(s, call_id) ==
  /\ RespReady /\ resp[s].live
  /\ crdtp__DispatchResponse__isError(resp[s].w)
  /\ ser' = CreateErrorResponse(call_id, resp[s].w.inner)
  /\ \E m \in MovedFrom(resp[s].w.inner) :
       resp' = [resp EXCEPT ![s].w = DispatchResponseWrapper(m), ![s].moved = TRUE]
  /\ out' = NoOut
  /\ UNCHANGED <<codecVars, convVars, binVars, dispVars, msgVars>>

\* crdtp__CreateErrorNotification(response)
Do_CreateErrorNotification(s) ==
  /\ RespReady /\ resp[s].live
  /\ crdtp__DispatchResponse__isError(resp[s].w)
  /\ ser' = CreateErrorNotification(resp[s].w.inner)
  /\ \E m \in MovedFrom(resp[s].w.inner) :
       resp' = [resp EXCEPT ![s].w = DispatchResponseWrapper(m), ![s].moved = TRUE]
  /\ out' = NoOut
  /\ UNCHANGED <<codecVars, convVars, binVars, dispVars, msgVars>>

\* crdtp__Serializable__DELETE(self)
Delete_Serializable ==
  /\ ser # NoSer
  /\ ser' = NoSer
  /\ UNCHANGED <<resp, out, codecVars, convVars, binVars, dispVars, msgVars>>

NextResp ==
  \/ \E s \in Slots : New_Success(s)
  \/ \E s \in Slots : New_FallThrough(s)
  \/ \E s \in Slots, msg \in Messages : New_ParseError(s, msg)
  \/ \E s \in Slots, msg \in Messages : New_InvalidRequest(s, msg)
  \/ \E s \in Slots, msg \in Messages : New_MethodNotFound(s, msg)
  \/ \E s \in Slots, msg \in Messages : New_InvalidParams(s, msg)
  \/ \E s \in Slots, msg \in Messages : New_ServerError(s, msg)
  \/ \E s \in Slots : Delete_Response(s)
  \/ \E s \in Slots : Do_messageCopy(s)
  \/ \E s \in Slots, call_id \in CallIds : Do_CreateErrorResponse(s, call_id)
  \/ \E s \in Slots : Do_CreateErrorNotification(s)
  \/ Delete_Serializable

SpecResp == InitResp /\ [][NextResp]_vars

(***************************************************************************)
(* Claims about DispatchResponse                                           *)
(***************************************************************************)
ErrorCtors == {"ParseError", "InvalidRequest", "MethodNotFound", "InvalidParams", "ServerError"}

C9_ExactlyOne(s) ==
  LET w == resp[s].w
      S == crdtp__DispatchResponse__isSuccess(w)
      E == crdtp__DispatchResponse__isError(w)
      F == crdtp__DispatchResponse__isFallThrough(w)
  IN  /\ \/ S /\ ~E /\ ~F
         \/ ~S /\ E /\ ~F
         \/ ~S /\ ~E /\ F
      /\ resp[s].ctor = "Success" => S
      /\ resp[s].ctor = "FallThrough" => F
      /\ resp[s].ctor \in ErrorCtors => E

C9_Inv == \A s \in Slots : resp[s].live => C9_ExactlyOne(s)

\* A wrapper that stays alive over a step answers the three predicates as before.
C9_Stable ==
  \A s \in Slots :
    (resp[s].live /\ resp'[s].live) =>
      /\ crdtp__DispatchResponse__isSuccess(resp'[s].w)
           = crdtp__DispatchResponse__isSuccess(resp[s].w)
      /\ crdtp__DispatchResponse__isError(resp'[s].w)
           = crdtp__DispatchResponse__isError(resp[s].w)
      /\ crdtp__DispatchResponse__isFallThrough(resp'[s].w)
           = crdtp__DispatchResponse__isFallThrough(resp[s].w)

\* C9: of isSuccess, isError, isFallThrough exactly one is true of a live
\* response, the one its constructor names (Success, FallThrough, or one of
\* the five error constructors), and the three answers never change while
\* the response lives, also after an envelope builder has moved from it.
C9_MutuallyExclusive == []C9_Inv /\ [][C9_Stable]_vars

\* An error response that an envelope builder consumed is still alive beside
\* a FallThrough response.
C9_Witness ==
  \E s, t \in Slots :
    /\ resp[s].live /\ resp[s].moved /\ resp[s].ctor = "ServerError"
    /\ crdtp__DispatchResponse__isError(resp[s].w)
    /\ resp[t].live /\ resp[t].ctor = "FallThrough"
    /\ crdtp__DispatchResponse__isFallThrough(resp[t].w)

\* C10: the code of a response identifies its constructor one-to-one (two
\* live responses have equal codes exactly when the same constructor built
\* them, whatever their messages), and a response built by an error
\* constructor from (msg, len) has messageLen() = len and messageCopy writes
\* exactly those len bytes.
C10_CodeAndMessage ==
  /\ \A s, t \in Slots :
       (resp[s].live /\ resp[t].live) =>
         ((resp[s].ctor = resp[t].ctor)
            <=> (crdtp__DispatchResponse__code(resp[s].w)
                   = crdtp__DispatchResponse__code(resp[t].w)))
  /\ \A s \in Slots :
       (resp[s].live /\ resp[s].ctor \in ErrorCtors /\ ~resp[s].moved) =>
         /\ crdtp__DispatchResponse__messageLen(resp[s].w) = resp[s].len
         /\ out.of = s =>
              /\ Len(out.bytes) = resp[s].len
              /\ \A i \in 1..resp[s].len : out.bytes[i] = resp[s].msg[i]

\* Two responses of one error constructor with different messages, one of
\* them holding a NUL, whose two bytes messageCopy has just written.
C10_Witness ==
  \E s, t \in Slots :
    /\ s # t /\ resp[s].live /\ resp[t].live
    /\ resp[s].ctor = "ParseError" /\ resp[t].ctor = "ParseError"
    /\ resp[s].msg = <<0, 101>> /\ resp[t].msg # resp[s].msg
    /\ ~resp[s].moved
    /\ out.of = s /\ out.bytes = <<0, 101>>

(***************************************************************************)
(* CBOR items (RFC 8949) as the envelope parser reads them: a head byte    *)
(* (major type, additional information) with an argument of 0 to 2 bytes.  *)
(***************************************************************************)
HeadError == [ok |-> FALSE, major |-> 0, arg |-> 0, next |-> 0]

\* The head of the item at 1-based position pos.
CborHead(bytes, pos) ==
  IF pos > Len(bytes) THEN HeadError
  ELSE LET major == bytes[pos] \div 32
           ai    == bytes[pos] % 32
       IN  IF ai < 24 THEN [ok |-> TRUE, major |-> major, arg |-> ai, next |-> pos + 1]
           ELSE IF ai = 24 /\ pos + 1 <= Len(bytes)
                THEN [ok |-> TRUE, major |-> major, arg |-> bytes[pos + 1], next |-> pos + 2]
           ELSE IF ai = 25 /\ pos + 2 <= Len(bytes)
                THEN [ok |-> TRUE, major |-> major,
                      arg |-> 256 * bytes[pos + 1] + bytes[pos + 2], next |-> pos + 3]
                ELSE HeadError

\* The position after `count` items starting at pos, 0 on a tokenizer error.
RECURSIVE CborSkip(_, _, _)
CborSkip(bytes, pos, count) ==
  IF count = 0 THEN pos
  ELSE LET h == CborHead(bytes, pos) IN
       IF ~h.ok THEN 0
       ELSE IF h.major \in {2, 3}
            THEN IF h.next + h.arg - 1 <= Len(bytes)
                 THEN CborSkip(bytes, h.next + h.arg, count - 1)
                 ELSE 0
       ELSE IF h.major = 4 THEN CborSkip(bytes, h.next, count - 1 + h.arg)
       ELSE IF h.major = 5 THEN CborSkip(bytes, h.next, count - 1 + 2 * h.arg)
       ELSE IF h.major = 6 THEN CborSkip(bytes, h.next, count)
       ELSE CborSkip(bytes, h.next, count - 1)

\* "id", "method", "sessionId", "params" in UTF-8
KeyId == <<105, 100>>
KeyMethod == <<109, 101, 116, 104, 111, 100>>
KeySessionId == <<115, 101, 115, 115, 105, 111, 110, 73, 100>>
KeyParams == <<112, 97, 114, 97, 109, 115>>

\* A span<uint8_t> into the serialized message: 0-based offset and size.
EmptySpan == [off |-> 0, len |-> 0]
SpanBytes(bytes, span) == SubSeq(bytes, span.off + 1, span.off + span.len)

(***************************************************************************)
(* Dispatchable (v8_crdtp): the envelope of one command                    *)
(***************************************************************************)
DispatchableStart(serialized) ==
  [serialized |-> serialized, ok |-> TRUE, has_method |-> FALSE,
   has_call_id |-> FALSE, call_id |-> 0,
   method |-> EmptySpan, session_id |-> EmptySpan, params |-> EmptySpan]

\* Reads `pairs` key/value pairs of the top-level map from pos on; returns
\* the Dispatchable and the position reached (ok = FALSE on an error).
RECURSIVE ParseProperties(_, _, _)
ParseProperties(d, pos, pairs) ==
  IF pairs = 0 THEN [d |-> d, pos |-> pos]
  ELSE
    LET bytes == d.serialized
        k     == CborHead(bytes, pos)
        bad   == [d |-> [d EXCEPT !.ok = FALSE], pos |-> pos]
    IN
    IF ~(k.ok /\ k.major = 3 /\ k.next + k.arg - 1 <= Len(bytes)) THEN bad
    ELSE
      LET key  == SubSeq(bytes, k.next, k.next + k.arg - 1)
          vpos == k.next + k.arg
          v    == CborHead(bytes, vpos)
          isString == v.ok /\ v.major = 3 /\ v.next + v.arg - 1 <= Len(bytes)
          span == [off |-> v.next - 1, len |-> v.arg]
      IN
      IF key = KeyId THEN
        IF v.ok /\ v.major = 0
        THEN ParseProperties([d EXCEPT !.has_call_id = TRUE, !.call_id = v.arg],
                             v.next, pairs - 1)
        ELSE bad
      ELSE IF key = KeyMethod THEN
        IF isString
        THEN ParseProperties([d EXCEPT !.has_method = TRUE, !.method = span],
                             v.next + v.arg, pairs - 1)
        ELSE bad
      ELSE IF key = KeySessionId THEN
        IF isString
        THEN ParseProperties([d EXCEPT !.session_id = span], v.next + v.arg, pairs - 1)
        ELSE bad
      ELSE
        LET end == CborSkip(bytes, vpos, 1) IN
        IF end = 0 THEN bad
        ELSE IF key = KeyParams
             THEN ParseProperties([d EXCEPT !.params = [off |-> vpos - 1, len |-> end - vpos]],
                                  end, pairs - 1)
             ELSE ParseProperties(d, end, pairs - 1)

\* The constructor with the check for the `method` property left out.
Dispatchable_NoMethodCheck(serialized) ==
  LET h == CborHead(serialized, 1) IN
  IF ~(h.ok /\ h.major = 5) THEN [DispatchableStart(serialized) EXCEPT !.ok = FALSE]
  ELSE LET r == ParseProperties(DispatchableStart(serialized), h.next, h.arg)
       IN  [r.d EXCEPT !.ok = r.d.ok /\ r.pos = Len(serialized) + 1]

\* Dispatchable::Dispatchable(span<uint8_t> serialized)
Dispatchable(serialized) ==
  LET h == CborHead(serialized, 1) IN
  IF ~(h.ok /\ h.major = 5) THEN [DispatchableStart(serialized) EXCEPT !.ok = FALSE]
  ELSE LET r == ParseProperties(DispatchableStart(serialized), h.next, h.arg)
       IN  [r.d EXCEPT !.ok = r.d.ok /\ r.pos = Len(serialized) + 1 /\ r.d.has_method]

Dispatchable_ok(d) == d.ok
Dispatchable_HasCallId(d) == d.has_call_id
Dispatchable_CallId(d) == d.call_id
Dispatchable_Method(d) == SpanBytes(d.serialized, d.method)
Dispatchable_SessionId(d) == SpanBytes(d.serialized, d.session_id)
Dispatchable_Params(d) == SpanBytes(d.serialized, d.params)

(***************************************************************************)
(* The crdtp__Dispatchable__* functions of crdtp_binding.cc                *)
(***************************************************************************)
crdtp__Dispatchable__new(data, len) == Dispatchable(SubSeq(data, 1, len))

crdtp__Dispatchable__ok(self) == Dispatchable_ok(self)

crdtp__Dispatchable__callId(self) == Dispatchable_CallId(self)

crdtp__Dispatchable__hasCallId(self) == Dispatchable_HasCallId(self)

crdtp__Dispatchable__methodLen(self) == Len(Dispatchable_Method(self))

crdtp__Dispatchable__methodCopy(self, buf) ==
  LET method == Dispatchable_Method(self) IN Memcpy(buf, method, Len(method))

crdtp__Dispatchable__sessionIdLen(self) == Len(Dispatchable_SessionId(self))

crdtp__Dispatchable__sessionIdCopy(self, buf) ==
  LET session_id == Dispatchable_SessionId(self)
  IN  Memcpy(buf, session_id, Len(session_id))

crdtp__Dispatchable__paramsLen(self) == Len(Dispatchable_Params(self))

\* The accessor copying the method span (a pasted body).
crdtp__Dispatchable__paramsCopy_pasted(self, buf) ==
  LET params == Dispatchable_Method(self) IN Memcpy(buf, params, Len(params))

crdtp__Dispatchable__paramsCopy(self, buf) ==
  LET params == Dispatchable_Params(self) IN Memcpy(buf, params, Len(params))

(***************************************************************************)
(* Serializable (v8_crdtp): an envelope that encodes itself on demand.     *)
(* The heap is the sequence of the objects allocated so far, each          *)
(* [v, live]; a pointer is an index into it and 0 is nullptr. An envelope  *)
(* names its params object by pointer and owns it.                         *)
(***************************************************************************)
\* "result", "error", "code", "message" in UTF-8
KeyResult == <<114, 101, 115, 117, 108, 116>>
KeyError == <<101, 114, 114, 111, 114>>
KeyCode == <<99, 111, 100, 101>>
KeyMessage == <<109, 101, 115, 115, 97, 103, 101>>

\* The head of a CBOR item: major type and an argument below 2^16.
EncHead(major, arg) ==
  IF arg < 24 THEN <<32 * major + arg>>
  ELSE IF arg < 256 THEN <<32 * major + 24, arg>>
  ELSE <<32 * major + 25, arg \div 256, arg % 256>>

\* An int32: major type 0 for n >= 0, major type 1 with argument -1 - n below.
EncInt32(n) == IF n >= 0 THEN EncHead(0, n) ELSE EncHead(1, -1 - n)

EncString8(s) == EncHead(3, Len(s)) \o s

\* A Serializable over bytes that are CBOR already (a handler's echoed params).
RawSerializable(bytes) == [kind |-> "raw", bytes |-> bytes]

\* CreateResponse(callId, params) of v8_crdtp: { id: callId, result: params }
CreateResponse(call_id, params) ==
  [kind |-> "response", hasId |-> TRUE, id |-> call_id, result |-> params]

\* CreateNotification(method, params) of v8_crdtp: { method: name, params: params }
CreateNotification(method, params) ==
  [kind |-> "notification", hasId |-> FALSE, id |-> 0, method |-> method, params |-> params]

\* The params pointer an envelope holds in its unique_ptr member, 0 when it has none.
Serializable_Params(v) ==
  IF "result" \in DOMAIN v THEN v.result
  ELSE IF "params" \in DOMAIN v THEN v.params
  ELSE 0

\* Serializable::AppendSerialized(out), the vector `out` being vec: appends
\* the CBOR message; a null params encodes as the empty map.
RECURSIVE AppendSerialized(_, _, _)
AppendSerialized(h, self, vec) ==
  LET v == h[self].v
      params == IF Serializable_Params(v) = 0 THEN <<160>>
                ELSE AppendSerialized(h, Serializable_Params(v), <<>>)
      error == <<162>> \o EncString8(KeyCode) \o EncInt32(v.error.code)
                       \o EncString8(KeyMessage) \o EncString8(v.error.message)
      id == IF v.hasId THEN EncString8(KeyId) \o EncInt32(v.id) ELSE <<>>
  IN  vec \o
      (IF v.kind = "raw" THEN v.bytes
       ELSE IF "error" \in DOMAIN v
            THEN (IF v.hasId THEN <<162>> ELSE <<161>>) \o id \o EncString8(KeyError) \o error
       ELSE IF v.kind = "response"
            THEN <<162>> \o id \o EncString8(KeyResult) \o params
       ELSE <<162>> \o EncString8(KeyMethod) \o EncString8(v.method)
                    \o EncString8(KeyParams) \o params)

\* `delete p`: frees the object and, through the unique_ptr member of an
\* envelope, its params; deleting an object already freed is a double free.
RECURSIVE Serializable_delete(_, _)
Serializable_delete(mem, p) ==
  IF p = 0 THEN mem
  ELSE IF ~mem.heap[p].live THEN [mem EXCEPT !.fault = TRUE]
  ELSE Serializable_delete([mem EXCEPT !.heap[p].live = FALSE],
                           Serializable_Params(mem.heap[p].v))

(***************************************************************************)
(* The crdtp__Serializable__* and crdtp__Create* functions of              *)
(* crdtp_binding.cc. The pointer a Create* function returns is the index   *)
(* of the last object of the heap it returns.                              *)
(***************************************************************************)
New(h, v) == Append(h, [v |-> v, live |-> TRUE])

crdtp__Serializable__DELETE(mem, self) == Serializable_delete(mem, self)

\* The vector `out`, which held vec, after self->AppendSerialized(out)
crdtp__Serializable__serializeToCBOR(h, self, vec) == AppendSerialized(h, self, vec)

\* The size reported after serializing twice into the local vector.
crdtp__Serializable__getSerializedSize_twice(h, self) ==
  LET bytes == AppendSerialized(h, self, AppendSerialized(h, self, <<>>))
  IN  Len(bytes)

crdtp__Serializable__getSerializedSize(h, self) ==
  LET bytes == AppendSerialized(h, self, <<>>)
  IN  Len(bytes)

\* The copy of bytes.size() bytes whatever len is.
crdtp__Serializable__getSerializedBytes_all(h, self, buf, len) ==
  LET bytes == AppendSerialized(h, self, <<>>)
  IN  Memcpy(buf, bytes, Len(bytes))

\* The caller's buffer `out`, which held buf, after the call
crdtp__Serializable__getSerializedBytes(h, self, buf, len) ==
  LET bytes == AppendSerialized(h, self, <<>>)
      copy_len == IF len < Len(bytes) THEN len ELSE Len(bytes)
  IN  Memcpy(buf, bytes, copy_len)

\* const char* method: the bytes up to the first NUL
CStr(method) == StdStringOfCStr(method, Len(method))

crdtp__CreateErrorResponse(h, call_id, response) ==
  New(h, CreateErrorResponse(call_id, response.inner))

\* The builder called without the params it was given.
crdtp__CreateResponse_dropParams(h, call_id, params) ==
  New(h, CreateResponse(call_id, 0))

\* params_ptr(params) is moved into the envelope, which owns it from then on
crdtp__CreateResponse(h, call_id, params) ==
  New(h, CreateResponse(call_id, params))

crdtp__CreateNotification(h, method, params) ==
  New(h, CreateNotification(CStr(method), params))

crdtp__CreateErrorNotification(h, response) ==
  New(h, CreateErrorNotification(response.inner))

(***************************************************************************)
(* json::ConvertJSONToCBOR (v8_crdtp, crdtp/json.h): a recursive-descent   *)
(* parser of RFC 8259 texts that writes each value as a CBOR item as it    *)
(* goes. A parse result is [ok, next, cbor]: the position after the value  *)
(* and the item written for it. Fractions, exponents, surrogate escapes,   *)
(* bytes above 0x7F and comments are none of the inputs drawn here.        *)
(***************************************************************************)
JsonFail == [ok |-> FALSE, next |-> 0, cbor |-> <<>>]

\* "null", "true", "false" in UTF-8
LitNull == <<110, 117, 108, 108>>
LitTrue == <<116, 114, 117, 101>>
LitFalse == <<102, 97, 108, 115, 101>>

RECURSIVE SkipWhitespace(_, _)
SkipWhitespace(j, pos) ==
  IF pos <= Len(j) /\ j[pos] \in {32, 9, 10, 13} THEN SkipWhitespace(j, pos + 1) ELSE pos

\* A literal token: the bytes at pos are those of lit.
ParseLiteral(j, pos, lit, item) ==
  IF pos + Len(lit) - 1 <= Len(j) /\ SubSeq(j, pos, pos + Len(lit) - 1) = lit
  THEN [ok |-> TRUE, next |-> pos + Len(lit), cbor |-> item]
  ELSE JsonFail

RECURSIVE ParseDigits(_, _, _)
ParseDigits(j, pos, acc) ==
  IF pos <= Len(j) /\ j[pos] \in 48..57
  THEN ParseDigits(j, pos + 1, (acc * 10) + (j[pos] - 48))
  ELSE [next |-> pos, value |-> acc]

\* A number token: '-'? ('0' | [1-9][0-9]*), written as an int32.
ParseNumberToken(j, pos) ==
  LET neg == j[pos] = 45
      p == IF neg THEN pos + 1 ELSE pos
  IN  IF ~(p <= Len(j) /\ j[p] \in 48..57) THEN JsonFail
      ELSE LET d == IF j[p] = 48 THEN [next |-> p + 1, value |-> 0] ELSE ParseDigits(j, p, 0)
           IN  [ok |-> TRUE, next |-> d.next,
                cbor |-> EncInt32(IF neg THEN 0 - d.value ELSE d.value)]

\* The char an escape letter stands for, 256 when it is no escape letter.
Unescape(c) ==
  CASE c = 34 -> 34 [] c = 92 -> 92 [] c = 47 -> 47 [] c = 98 -> 8 [] c = 102 -> 12
    [] c = 110 -> 10 [] c = 114 -> 13 [] c = 116 -> 9 [] OTHER -> 256

\* The value of a hex digit, 16 when the char is none.
HexValue(c) ==
  IF c \in 48..57 THEN c - 48
  ELSE IF c \in 97..102 THEN c - 87
  ELSE IF c \in 65..70 THEN c - 55
  ELSE 16

\* The code unit of the escape \uXXXX whose 'u' is at pos, 65536 when four
\* hex digits do not follow.
UnicodeEscape(j, pos) ==
  IF pos + 4 > Len(j) \/ \E k \in 1..4 : HexValue(j[pos + k]) = 16 THEN 65536
  ELSE (HexValue(j[pos + 1]) * 4096) + (HexValue(j[pos + 2]) * 256)
         + (HexValue(j[pos + 3]) * 16) + HexValue(j[pos + 4])

\* A string token from the char after its opening quote on, written as a
\* text string of the chars it spells.
RECURSIVE ParseStringToken(_, _, _)
ParseStringToken(j, pos, chars) ==
  IF pos > Len(j) THEN JsonFail
  ELSE IF j[pos] = 34 THEN [ok |-> TRUE, next |-> pos + 1, cbor |-> EncString8(chars)]
  ELSE IF j[pos] = 92
       THEN IF pos + 1 > Len(j) THEN JsonFail
            ELSE IF j[pos + 1] = 117
                 THEN IF UnicodeEscape(j, pos + 1) = 65536 THEN JsonFail
                      ELSE ParseStringToken(j, pos + 6,
                                            chars \o Utf8Encode(UnicodeEscape(j, pos + 1)))
            ELSE IF Unescape(j[pos + 1]) = 256 THEN JsonFail
            ELSE ParseStringToken(j, pos + 2, Append(chars, Unescape(j[pos + 1])))
  ELSE ParseStringToken(j, pos + 1, Append(chars, j[pos]))

RECURSIVE ParseValue(_, _)
RECURSIVE ParseElements(_, _, _, _)
RECURSIVE ParseMembers(_, _, _, _)

\* The elements of an array from pos on, `count` of them written to `items`
\* already; a ']' may follow an element but not a ','.
ParseElements(j, pos, count, items) ==
  LET v == ParseValue(j, pos) IN
  IF ~v.ok \/ v.next > Len(j) THEN JsonFail
  ELSE IF j[v.next] = 44 THEN ParseElements(j, v.next + 1, count + 1, items \o v.cbor)
  ELSE IF j[v.next] = 93
       THEN [ok |-> TRUE, next |-> v.next + 1,
             cbor |-> EncHead(4, count + 1) \o items \o v.cbor]
  ELSE JsonFail

\* The members of an object from pos on: a string, ':', a value, then ',' or '}'.
ParseMembers(j, pos, count, items) ==
  LET kpos == SkipWhitespace(j, pos) IN
  IF kpos > Len(j) \/ j[kpos] # 34 THEN JsonFail
  ELSE
    LET k == ParseStringToken(j, kpos + 1, <<>>)
        cpos == IF k.ok THEN SkipWhitespace(j, k.next) ELSE 0
    IN
    IF ~k.ok \/ cpos > Len(j) \/ j[cpos] # 58 THEN JsonFail
    ELSE
      LET v == ParseValue(j, cpos + 1) IN
      IF ~v.ok \/ v.next > Len(j) THEN JsonFail
      ELSE IF j[v.next] = 44
           THEN ParseMembers(j, v.next + 1, count + 1, items \o k.cbor \o v.cbor)
      ELSE IF j[v.next] = 125
           THEN [ok |-> TRUE, next |-> v.next + 1,
                 cbor |-> EncHead(5, count + 1) \o items \o k.cbor \o v.cbor]
      ELSE JsonFail

\* One value with the white space around it.
ParseValue(j, pos0) ==
  LET pos == SkipWhitespace(j, pos0) IN
  IF pos > Len(j) THEN JsonFail
  ELSE
    LET c == j[pos]
        inner == SkipWhitespace(j, pos + 1)
        r == CASE c = 110 -> ParseLiteral(j, pos, LitNull, <<246>>)
               [] c = 116 -> ParseLiteral(j, pos, LitTrue, <<245>>)
               [] c = 102 -> ParseLiteral(j, pos, LitFalse, <<244>>)
               [] c = 34 -> ParseStringToken(j, pos + 1, <<>>)
               [] c = 45 \/ c \in 48..57 -> ParseNumberToken(j, pos)
               [] c = 91 ->
                    IF inner <= Len(j) /\ j[inner] = 93
                    THEN [ok |-> TRUE, next |-> inner + 1, cbor |-> EncHead(4, 0)]
                    ELSE ParseElements(j, pos + 1, 0, <<>>)
               [] c = 123 ->
                    IF inner <= Len(j) /\ j[inner] = 125
                    THEN [ok |-> TRUE, next |-> inner + 1, cbor |-> EncHead(5, 0)]
                    ELSE ParseMembers(j, pos + 1, 0, <<>>)
               [] OTHER -> JsonFail
    IN  IF r.ok THEN [r EXCEPT !.next = SkipWhitespace(j, r.next)] ELSE JsonFail

\* json::ConvertJSONToCBOR(json, cbor): the items are appended to cbor; an
\* error, input left over after the value included, leaves cbor empty.
json_ConvertJSONToCBOR(json, cbor) ==
  LET r == ParseValue(json, 1) IN
  IF r.ok /\ r.next = Len(json) + 1 THEN cbor \o r.cbor ELSE <<>>

(***************************************************************************)
(* The crdtp__json__* functions of crdtp_binding.cc; each returns its bool *)
(* and the vector it was handed as it is after the call.                   *)
(***************************************************************************)
\* The return value with its negation left out.
crdtp__json__ConvertJSONToCBOR_empty(json_data, json_len, cbor_out) ==
  LET cbor == json_ConvertJSONToCBOR(SubSeq(json_data, 1, json_len), cbor_out)
  IN  [ret |-> cbor = <<>>, cbor_out |-> cbor]

\* The span one byte short of the text.
crdtp__json__ConvertJSONToCBOR_short(json_data, json_len, cbor_out) ==
  LET cbor == json_ConvertJSONToCBOR(SubSeq(json_data, 1, json_len - 1), cbor_out)
  IN  [ret |-> ~(cbor = <<>>), cbor_out |-> cbor]

crdtp__json__ConvertJSONToCBOR(json_data, json_len, cbor_out) ==
  LET cbor == json_ConvertJSONToCBOR(SubSeq(json_data, 1, json_len), cbor_out)
  IN  [ret |-> ~(cbor = <<>>), cbor_out |-> cbor]

(***************************************************************************)
(* json::ConvertCBORToJSON (v8_crdtp, crdtp/json.h): reads one CBOR item   *)
(* and writes it as compact JSON text. A result is [ok, next, json]: the   *)
(* position after the item and the text written for it. Integers take the *)
(* heads CborHead reads; a byte string is written as its base64 text.      *)
(***************************************************************************)
JsonWriteFail == [ok |-> FALSE, next |-> 0, json |-> <<>>]

RECURSIVE Digits(_)
\* The decimal digits of a natural number.
Digits(n) == IF n < 10 THEN <<48 + n>> ELSE Digits(n \div 10) \o <<48 + (n % 10)>>

HexDigit(d) == IF d < 10 THEN 48 + d ELSE 87 + d

\* One char of a string as JSON text writes it.
JsonEscapeChar(c) ==
  CASE c = 34 -> <<92, 34>> [] c = 92 -> <<92, 92>> [] c = 8 -> <<92, 98>>
    [] c = 12 -> <<92, 102>> [] c = 10 -> <<92, 110>> [] c = 13 -> <<92, 114>>
    [] c = 9 -> <<92, 116>>
    [] c < 32 /\ c \notin {8, 9, 10, 12, 13} ->
         <<92, 117, 48, 48, HexDigit(c \div 16), HexDigit(c % 16)>>
    [] OTHER -> <<c>>

RECURSIVE JsonEscape(_)
JsonEscape(chars) ==
  IF Len(chars) = 0 THEN <<>> ELSE JsonEscapeChar(Head(chars)) \o JsonEscape(Tail(chars))

JsonQuote(chars) == <<34>> \o JsonEscape(chars) \o <<34>>

RECURSIVE WriteValue(_, _)
RECURSIVE WriteElements(_, _, _, _)
RECURSIVE WritePairs(_, _, _, _)

\* `count` more elements of an array from pos on; text is '[' and the
\* elements written so far.
WriteElements(cbor, pos, count, text) ==
  IF count = 0 THEN [ok |-> TRUE, next |-> pos, json |-> text \o <<93>>]
  ELSE LET v == WriteValue(cbor, pos) IN
       IF ~v.ok THEN JsonWriteFail
       ELSE WriteElements(cbor, v.next, count - 1,
                          text \o (IF Len(text) > 1 THEN <<44>> ELSE <<>>) \o v.json)

\* `count` more key/value pairs of a map from pos on; a key is a text string.
WritePairs(cbor, pos, count, text) ==
  IF count = 0 THEN [ok |-> TRUE, next |-> pos, json |-> text \o <<125>>]
  ELSE
    LET k == CborHead(cbor, pos) IN
    IF ~(k.ok /\ k.major = 3 /\ k.next + k.arg - 1 <= Len(cbor)) THEN JsonWriteFail
    ELSE
      LET key == SubSeq(cbor, k.next, k.next + k.arg - 1)
          v == WriteValue(cbor, k.next + k.arg)
      IN  IF ~v.ok THEN JsonWriteFail
          ELSE WritePairs(cbor, v.next, count - 1,
                          text \o (IF Len(text) > 1 THEN <<44>> ELSE <<>>)
                               \o JsonQuote(key) \o <<58>> \o v.json)

WriteValue(cbor, pos) ==
  LET h == CborHead(cbor, pos) IN
  IF ~h.ok THEN JsonWriteFail
  ELSE IF h.major = 0 THEN [ok |-> TRUE, next |-> h.next, json |-> Digits(h.arg)]
  ELSE IF h.major = 1 THEN [ok |-> TRUE, next |-> h.next, json |-> <<45>> \o Digits(h.arg + 1)]
  ELSE IF h.major \in {2, 3}
       THEN IF h.next + h.arg - 1 > Len(cbor) THEN JsonWriteFail
            ELSE LET payload == SubSeq(cbor, h.next, h.next + h.arg - 1)
                 IN  [ok |-> TRUE, next |-> h.next + h.arg,
                      json |-> IF h.major = 3 THEN JsonQuote(payload)
                               ELSE <<34>> \o Binary_toBase64(payload) \o <<34>>]
  ELSE IF h.major = 4 THEN WriteElements(cbor, h.next, h.arg, <<91>>)
  ELSE IF h.major = 5 THEN WritePairs(cbor, h.next, h.arg, <<123>>)
  ELSE IF cbor[pos] = 244 THEN [ok |-> TRUE, next |-> pos + 1, json |-> <<102, 97, 108, 115, 101>>]
  ELSE IF cbor[pos] = 245 THEN [ok |-> TRUE, next |-> pos + 1, json |-> <<116, 114, 117, 101>>]
  ELSE IF cbor[pos] = 246 THEN [ok |-> TRUE, next |-> pos + 1, json |-> <<110, 117, 108, 108>>]
  ELSE JsonWriteFail

\* Status json::ConvertCBORToJSON(cbor, &json): the status and the string;
\* bytes left over after the item are an error.
json_ConvertCBORToJSON(cbor) ==
  LET r == WriteValue(cbor, 1) IN
  IF r.ok /\ r.next = Len(cbor) + 1 THEN [ok |-> TRUE, json |-> r.json]
  ELSE [ok |-> FALSE, json |-> <<>>]

\* The status left unread: the string is assigned and true returned always.
crdtp__json__ConvertCBORToJSON_unchecked(cbor_data, cbor_len, json_out) ==
  LET status == json_ConvertCBORToJSON(SubSeq(cbor_data, 1, cbor_len))
  IN  [ret |-> TRUE, json_out |-> status.json]

\* The string appended to json_out (insert at end()) where the code assigns.
crdtp__json__ConvertCBORToJSON_append(cbor_data, cbor_len, json_out) ==
  LET status == json_ConvertCBORToJSON(SubSeq(cbor_data, 1, cbor_len))
  IN  IF ~status.ok THEN [ret |-> FALSE, json_out |-> json_out]
      ELSE [ret |-> TRUE, json_out |-> json_out \o status.json]

crdtp__json__ConvertCBORToJSON(cbor_data, cbor_len, json_out) ==
  LET status == json_ConvertCBORToJSON(SubSeq(cbor_data, 1, cbor_len))
  IN  IF ~status.ok THEN [ret |-> FALSE, json_out |-> json_out]
      ELSE [ret |-> TRUE, json_out |-> status.json]

\* crdtp__vec_u8__size, crdtp__vec_u8__copy: the bytes of the vector, copied
\* into a buffer of its size.
crdtp__vec_u8__size(self) == Len(self)
crdtp__vec_u8__copy(self, buf) == Memcpy(buf, self, Len(self))

(***************************************************************************)
(* FrontendChannel: crdtp__FrontendChannel__BASE forwards each virtual     *)
(* call to the foreign callback of the same name. `world` holds the        *)
(* handler executions and the callbacks made so far.                       *)
(***************************************************************************)
\* The trampoline passing message.get(): the unique_ptr parameter still owns
\* the message when the function returns, and deletes it.
SendProtocolResponse_get(world, call_id, message) ==
  LET mem == Serializable_delete([heap |-> world.heap, fault |-> world.fault], message)
  IN  [world EXCEPT !.chan = Append(@, [cb |-> "sendProtocolResponse",
                                        call_id |-> call_id, message |-> message]),
                    !.heap = mem.heap, !.fault = mem.fault]

\* struct crdtp__FrontendChannel__BASE :: SendProtocolResponse: the callback
\* gets message.release(), so the unique_ptr parameter is null on return.
SendProtocolResponse(world, call_id, message) ==
  [world EXCEPT !.chan = Append(@, [cb |-> "sendProtocolResponse",
                                    call_id |-> call_id, message |-> message])]

\* struct crdtp__FrontendChannel__BASE :: SendProtocolNotification
SendProtocolNotification(world, message) ==
  [world EXCEPT !.chan = Append(@, [cb |-> "sendProtocolNotification",
                                    message |-> message])]

\* The trampoline handing the two spans over in each other's place.
FallThrough_swapped(world, call_id, method, message) ==
  [world EXCEPT !.chan = Append(@, [cb |-> "fallThrough", call_id |-> call_id,
                                    method |-> message, message |-> method])]

\* struct crdtp__FrontendChannel__BASE :: FallThrough: (data, size) of each span
FallThrough(world, call_id, method, message) ==
  [world EXCEPT !.chan = Append(@, [cb |-> "fallThrough", call_id |-> call_id,
                                    method |-> method, message |-> message])]

\* struct crdtp__FrontendChannel__BASE :: FlushProtocolNotifications
FlushProtocolNotifications(world) ==
  [world EXCEPT !.chan = Append(@, [cb |-> "flushProtocolNotifications"])]

(***************************************************************************)
(* UberDispatcher and DispatchResult (v8_crdtp)                            *)
(***************************************************************************)
NoRunnable == [set |-> FALSE]

\* The handler registered for `name`, bound to the command: it answers the
\* call through the channel, echoing the params.
HandlerBody(name, d, tag, world) ==
  LET h1 == New(world.heap, RawSerializable(Dispatchable_Params(d)))
      h2 == New(h1, CreateResponse(Dispatchable_CallId(d), Len(h1)))
  IN  SendProtocolResponse(
        [world EXCEPT !.handled = Append(@, [handler |-> name, by |-> tag]),
                      !.heap = h2],
        Dispatchable_CallId(d), Len(h2))

\* Whether registry entry i is the handler of `method`: the names are equal
\* byte for byte.
HandlerMatches(name, method) == name = method

\* Lookup by prefix: a registered name that starts the method matches.
UberDispatcher_Dispatch_prefix(reg, d, tag) ==
  LET method == Dispatchable_Method(d)
      hits == {i \in 1..Len(reg) :
                 Len(reg[i]) <= Len(method) /\ SubSeq(method, 1, Len(reg[i])) = reg[i]}
  IN  IF Dispatchable_ok(d) /\ hits # {}
      THEN [found |-> TRUE,
            runnable |-> [set |-> TRUE, handler |-> reg[CHOOSE i \in hits : TRUE],
                          d |-> d, tag |-> tag]]
      ELSE [found |-> FALSE, runnable |-> NoRunnable]

\* UberDispatcher::Dispatch(dispatchable): found and bound to the handler
\* when the command is ok and its method is registered, not found otherwise.
UberDispatcher_Dispatch(reg, d, tag) ==
  LET method == Dispatchable_Method(d)
      hits == {i \in 1..Len(reg) : HandlerMatches(reg[i], method)}
  IN  IF Dispatchable_ok(d) /\ hits # {}
      THEN [found |-> TRUE,
            runnable |-> [set |-> TRUE, handler |-> reg[CHOOSE i \in hits : TRUE],
                          d |-> d, tag |-> tag]]
      ELSE [found |-> FALSE, runnable |-> NoRunnable]

DispatchResult_MethodFound(r) == r.found

\* Run() that keeps the handler bound after invoking it.
DispatchResult_Run_keep(r, world) ==
  IF r.runnable.set
  THEN [r |-> r,
        world |-> HandlerBody(r.runnable.handler, r.runnable.d, r.runnable.tag, world)]
  ELSE [r |-> r, world |-> world]

\* DispatchResult::Run(): invokes the bound handler and releases it, so that
\* the result cannot run it again.
DispatchResult_Run(r, world) ==
  IF r.runnable.set
  THEN [r |-> [r EXCEPT !.runnable = NoRunnable],
        world |-> HandlerBody(r.runnable.handler, r.runnable.d, r.runnable.tag, world)]
  ELSE [r |-> r, world |-> world]

(***************************************************************************)
(* The crdtp__UberDispatcher__* and crdtp__DispatchResult__* functions     *)
(***************************************************************************)
DispatchResultWrapper(r) == [inner |-> r]

\* Dispatch that runs the result before returning it.
crdtp__UberDispatcher__Dispatch_eager(reg, dispatchable, tag, world) ==
  LET ran == DispatchResult_Run(UberDispatcher_Dispatch(reg, dispatchable, tag), world)
  IN  [ret |-> DispatchResultWrapper(ran.r), world |-> ran.world]

\* new DispatchResultWrapper(self->Dispatch(*dispatchable))
crdtp__UberDispatcher__Dispatch(reg, dispatchable, tag, world) ==
  [ret |-> DispatchResultWrapper(UberDispatcher_Dispatch(reg, dispatchable, tag)),
   world |-> world]

crdtp__DispatchResult__MethodFound(self) == DispatchResult_MethodFound(self.inner)

\* The wrapper that never runs the inner result.
crdtp__DispatchResult__Run_noop(self, world) == [self |-> self, world |-> world]

\* self->inner.Run()
crdtp__DispatchResult__Run(self, world) ==
  LET ran == DispatchResult_Run(self.inner, world)
  IN  [self |-> DispatchResultWrapper(ran.r), world |-> ran.world]

(***************************************************************************)
(* Commands handed to crdtp__Dispatchable__new                             *)
(***************************************************************************)
\* "Foo.bar", its prefix "Foo." and the pattern "Foo.*"
Name_FooBar == <<70, 111, 111, 46, 98, 97, 114>>
Name_FooPrefix == <<70, 111, 111, 46>>
Name_FooStar == <<70, 111, 111, 46, 42>>
MethodNames == {Name_FooBar, Name_FooPrefix, Name_FooStar}

\* params: {} , {1: 2} (not the shape of any parameter object), the integer 5
ParamsSamples == {<<160>>, <<161, 1, 2>>, <<5>>}
SessionSamples == {<<115>>}

EncUInt(n) == IF n < 24 THEN <<n>> ELSE <<24, n>>
EncText(t) == <<96 + Len(t)>> \o t

\* A command: which of id, method, sessionId, params it carries, and their values.
CommandShapes ==
  [kind : {"command"},
   hasId : BOOLEAN, id : {7},
   hasMethod : BOOLEAN, method : MethodNames,
   hasSession : BOOLEAN, session : SessionSamples,
   hasParams : BOOLEAN, params : ParamsSamples]

\* Shapes that differ only in the value of an absent property are one command.
Canonical(c) ==
  /\ (~c.hasMethod => c.method = Name_FooBar)
  /\ (~c.hasParams => c.params = <<160>>)

Count(b) == IF b THEN 1 ELSE 0

\* The definite-length CBOR map { id?, method?, sessionId?, params? }
EncodeCommand(c) ==
  <<160 + Count(c.hasId) + Count(c.hasMethod) + Count(c.hasSession) + Count(c.hasParams)>>
    \o (IF c.hasId THEN EncText(KeyId) \o EncUInt(c.id) ELSE <<>>)
    \o (IF c.hasMethod THEN EncText(KeyMethod) \o EncText(c.method) ELSE <<>>)
    \o (IF c.hasSession THEN EncText(KeySessionId) \o EncText(c.session) ELSE <<>>)
    \o (IF c.hasParams THEN EncText(KeyParams) \o c.params ELSE <<>>)

\* { method: "Foo.bar", <cut> }: a map announcing two pairs whose second key
\* is cut short, so that the tokenizer fails after the method was read
CutAfterMethod == <<162>> \o EncText(KeyMethod) \o EncText(Name_FooBar) \o <<98, 105>>

\* { method: "Foo.bar" } followed by a byte that belongs to no item
TrailingByte == <<161>> \o EncText(KeyMethod) \o EncText(Name_FooBar) \o <<0>>

\* Inputs whose top level is not a map, or which the tokenizer rejects:
\* the integer 7, an array, a reserved head byte, a map cut inside its key,
\* the empty input, and the two that fail after their method was read.
MalformedInputs ==
  {<<7>>, <<130, 1, 2>>, <<28>>, <<161, 102, 109>>, <<>>, CutAfterMethod, TrailingByte}

Inputs ==
  {[shape |-> c, bytes |-> EncodeCommand(c)] : c \in {x \in CommandShapes : Canonical(x)}}
    \cup {[shape |-> [kind |-> "malformed"], bytes |-> b] : b \in MalformedInputs}

\* The commands that arrive once a Dispatch call has been made: Foo.bar
\* with a session id and nothing else, Foo.bar with id 7 and params {1: 2},
\* a command without method, and the integer 7.
FollowUpInputs ==
  {i \in Inputs :
     \/ i.shape.kind = "malformed" /\ i.bytes = <<7>>
     \/ /\ i.shape.kind = "command"
        /\ \/ /\ i.shape.hasMethod /\ i.shape.method = Name_FooBar
              /\ ~i.shape.hasId /\ i.shape.hasSession /\ ~i.shape.hasParams
           \/ /\ i.shape.hasMethod /\ i.shape.method = Name_FooBar
              /\ i.shape.hasId /\ ~i.shape.hasSession
              /\ i.shape.hasParams /\ i.shape.params = <<161, 1, 2>>
           \/ /\ ~i.shape.hasMethod
              /\ i.shape.hasId /\ ~i.shape.hasSession /\ ~i.shape.hasParams}

(***************************************************************************)
(* Dispatch harness: handlers are registered, commands are parsed one      *)
(* after the other, dispatched, and the results run and freed. Nothing     *)
(* frees the responses the handlers deliver, so the heap and the logs of   *)
(* handler executions and callbacks grow over the whole run.               *)
(***************************************************************************)
Range(f) == {f[i] : i \in DOMAIN f}
World == [handled |-> handled, chan |-> chan, heap |-> heap]

Init ==
  /\ IdleBin
  /\ IdleConv
  /\ IdleCodec
  /\ IdleResp
  /\ IdleDisp
  /\ IdleMsg

\* A domain dispatcher wires the handler of `name` into the UberDispatcher.
Register(name) ==
  /\ ~dresult.live
  /\ Len(registry) < MaxHandlers
  /\ name \notin Range(registry)
  /\ registry' = Append(registry, name)
  /\ UNCHANGED <<disp, dresult, nDispatch, handled, chan, codecVars, convVars, binVars, respVars, msgVars>>

\* crdtp__Dispatchable__new(data, len)
New_Dispatchable(input) ==
  /\ ~disp.live /\ ~dresult.live
  /\ disp' = [live |-> TRUE, shape |-> input.shape,
              d |-> crdtp__Dispatchable__new(input.bytes, Len(input.bytes))]
  /\ UNCHANGED <<registry, dresult, nDispatch, handled, chan, codecVars, convVars, binVars, respVars, msgVars>>

\* crdtp__Dispatchable__DELETE(self)
Delete_Dispatchable ==
  /\ disp.live /\ ~dresult.live
  /\ disp' = NoDisp
  /\ UNCHANGED <<registry, dresult, nDispatch, handled, chan, codecVars, convVars, binVars, respVars, msgVars>>

\* crdtp__UberDispatcher__Dispatch(self, dispatchable)
Do_Dispatch ==
  /\ disp.live /\ ~dresult.live
  /\ nDispatch < MaxDispatch
  /\ LET r == crdtp__UberDispatcher__Dispatch(registry, disp.d, nDispatch + 1, World)
     IN  /\ dresult' = [live |-> TRUE, w |-> r.ret, runs |-> 0, tag |-> nDispatch + 1,
                        handledAt |-> Len(handled), chanAt |-> Len(chan)]
         /\ handled' = r.world.handled
         /\ chan' = r.world.chan
         /\ heap' = r.world.heap
  /\ nDispatch' = nDispatch + 1
  /\ UNCHANGED <<registry, disp, held, fault, probe, calls, codecVars, convVars, binVars, respVars>>

\* crdtp__DispatchResult__Run(self)
Do_Run ==
  /\ dresult.live
  /\ dresult.runs < MaxRuns
  /\ LET r == crdtp__DispatchResult__Run(dresult.w, World)
     IN  /\ dresult' = [dresult EXCEPT !.w = r.self, !.runs = @ + 1]
         /\ handled' = r.world.handled
         /\ chan' = r.world.chan
         /\ heap' = r.world.heap
  /\ UNCHANGED <<registry, disp, nDispatch, held, fault, probe, calls, codecVars, convVars, binVars, respVars>>

\* crdtp__DispatchResult__DELETE(self)
Delete_Result ==
  /\ dresult.live
  /\ dresult' = NoResult
  /\ UNCHANGED <<registry, disp, nDispatch, handled, chan, codecVars, convVars, binVars, respVars, msgVars>>

Next ==
  \/ \E name \in MethodNames : Register(name)
  \/ \E input \in (IF nDispatch = 0 THEN Inputs ELSE FollowUpInputs) :
       New_Dispatchable(input)
  \/ Delete_Dispatchable
  \/ Do_Dispatch
  \/ Do_Run
  \/ Delete_Result

Spec == Init /\ [][Next]_vars

(***************************************************************************)
(* Claims about dispatch                                                   *)
(***************************************************************************)
\* The handler executions made on behalf of the result of the tag-th Dispatch.
Execs(tag) == {i \in 1..Len(handled) : handled[i].by = tag}

\* A buffer of n bytes as a caller allocates it before a *Copy call.
Fresh(n) == [i \in 1..n |-> 170]

WellFormedCommand == disp.live /\ disp.shape.kind = "command" /\ disp.shape.hasMethod

\* C3: for a well-formed command naming a registered method m the result has
\* MethodFound() = true; before Run() no handler has executed for it, and
\* once Run() has been called the handler of m has executed exactly once
\* and no other handler has.
C3_DispatchHit ==
  (dresult.live /\ WellFormedCommand /\ disp.shape.method \in Range(registry)) =>
    /\ crdtp__DispatchResult__MethodFound(dresult.w)
    /\ dresult.runs = 0 => Execs(dresult.tag) = {}
    /\ dresult.runs >= 1 =>
         /\ Cardinality(Execs(dresult.tag)) = 1
         /\ \A i \in Execs(dresult.tag) : handled[i].handler = disp.shape.method

\* "Foo.bar" is registered beside another name, was dispatched and run once.
C3_Witness ==
  /\ dresult.live /\ WellFormedCommand
  /\ Len(registry) = 2
  /\ disp.shape.method = Name_FooBar /\ Name_FooBar \in Range(registry)
  /\ dresult.runs = 1
  /\ Cardinality(Execs(dresult.tag)) = 1

\* The method bytes as a caller reads them through methodLen and methodCopy.
MethodRead(d) == crdtp__Dispatchable__methodCopy(d, Fresh(crdtp__Dispatchable__methodLen(d)))

\* C4: MethodFound() is true exactly when the Dispatchable is ok and its
\* method bytes equal a registered name byte for byte; the registry enters
\* only as the set of its names, so neither a registered prefix or pattern
\* of the method nor the order of registration makes a difference. A
\* Dispatchable that is not ok is not found even when the bytes read before
\* the failure are a registered name.
C4_ExactMatch ==
  dresult.live =>
    (crdtp__DispatchResult__MethodFound(dresult.w)
       <=> (crdtp__Dispatchable__ok(disp.d) /\ MethodRead(disp.d) \in Range(registry)))

\* { method: "Foo.bar", <cut> } dispatched while "Foo.bar" and its prefix
\* "Foo." are registered: the Dispatchable is not ok, the method read from it
\* is the registered "Foo.bar", and the result is not found.
C4_Witness ==
  /\ dresult.live
  /\ disp.d.serialized = CutAfterMethod
  /\ ~crdtp__Dispatchable__ok(disp.d)
  /\ MethodRead(disp.d) = Name_FooBar
  /\ Range(registry) = {Name_FooBar, Name_FooPrefix}
  /\ ~crdtp__DispatchResult__MethodFound(dresult.w)

\* C5: over any number of Run() calls on one DispatchResult its handler is
\* executed at most once.
C5_AtMostOnce ==
  \A tag \in 1..nDispatch : Cardinality(Execs(tag)) <= 1

\* Run() was called twice on a found result; the handler ran once.
C5_Witness ==
  /\ dresult.live
  /\ crdtp__DispatchResult__MethodFound(dresult.w)
  /\ dresult.runs >= 2
  /\ Cardinality(Execs(dresult.tag)) = 1

\* An un-run result has left the handler log and the channel as Dispatch found them.
C6_NoTraceYet ==
  (dresult.live /\ dresult.runs = 0) =>
    /\ Len(handled) = dresult.handledAt
    /\ Len(chan) = dresult.chanAt

\* A Dispatch step, and the deletion of a result never run, change nothing
\* but the result; a handler execution or a channel callback is appended
\* only by a Run() step.
C6_Frame ==
  /\ (~dresult.live /\ dresult'.live) =>
       /\ handled' = handled /\ chan' = chan
       /\ disp' = disp /\ registry' = registry
  /\ (dresult.live /\ dresult.runs = 0 /\ ~dresult'.live) =>
       /\ handled' = handled /\ chan' = chan
       /\ disp' = disp /\ registry' = registry
  /\ (Len(handled') > Len(handled) \/ Len(chan') > Len(chan)) =>
       /\ dresult.live /\ dresult'.live
       /\ dresult'.runs = dresult.runs + 1

\* C6: Dispatch invokes no handler and no FrontendChannel operation and
\* leaves the Dispatchable, the registry and the channel unchanged; handler
\* executions and channel callbacks happen only inside Run(), and a result
\* deleted without Run() leaves no trace.
C6_DispatchHasNoEffect == []C6_NoTraceYet /\ [][C6_Frame]_vars

\* A result for a registered method was made and then deleted without Run():
\* no handler has executed and the channel has seen nothing.
C6_Witness ==
  /\ WellFormedCommand /\ disp.shape.method \in Range(registry)
  /\ nDispatch >= 1
  /\ ~dresult.live
  /\ handled = <<>> /\ chan = <<>>

\* C7: a Dispatchable built from bytes whose top level is not a map, whose
\* map has no `method`, or which the tokenizer rejects, is constructed all
\* the same and has ok() = false.
C7_MalformedNotOk ==
  (disp.live /\ (disp.shape.kind = "malformed" \/ ~disp.shape.hasMethod)) =>
    ~crdtp__Dispatchable__ok(disp.d)

\* The Dispatchable of the CBOR integer 7 exists and is not ok.
C7_Witness ==
  /\ disp.live
  /\ disp.d.serialized = <<7>>
  /\ ~crdtp__Dispatchable__ok(disp.d)

SessionRead(d) ==
  crdtp__Dispatchable__sessionIdCopy(d, Fresh(crdtp__Dispatchable__sessionIdLen(d)))
ParamsRead(d) ==
  crdtp__Dispatchable__paramsCopy(d, Fresh(crdtp__Dispatchable__paramsLen(d)))

\* bytes occurs in whole as a contiguous part of the serialized message
IsSubSpan(bytes, serialized) ==
  \E off \in 0..(Len(serialized) - Len(bytes)) :
    SubSeq(serialized, off + 1, off + Len(bytes)) = bytes

\* C8: a well-formed map with a `method` string is ok whether or not id,
\* sessionId and params are present and whatever params holds; without id
\* hasCallId() is false, without sessionId the session id is empty, and
\* params is read back as the very bytes it has in the input.
C8_OptionalFields ==
  WellFormedCommand =>
    LET c == disp.shape
        d == disp.d
    IN  /\ crdtp__Dispatchable__ok(d)
        /\ MethodRead(d) = c.method
        /\ crdtp__Dispatchable__hasCallId(d) = c.hasId
        /\ c.hasId => crdtp__Dispatchable__callId(d) = c.id
        /\ crdtp__Dispatchable__sessionIdLen(d) = (IF c.hasSession THEN Len(c.session) ELSE 0)
        /\ SessionRead(d) = (IF c.hasSession THEN c.session ELSE <<>>)
        /\ crdtp__Dispatchable__paramsLen(d) = (IF c.hasParams THEN Len(c.params) ELSE 0)
        /\ ParamsRead(d) = (IF c.hasParams THEN c.params ELSE <<>>)
        /\ IsSubSpan(ParamsRead(d), d.serialized)

\* A command with neither id nor sessionId whose params is the map {1: 2}.
C8_Witness ==
  /\ WellFormedCommand
  /\ ~disp.shape.hasId /\ ~disp.shape.hasSession
  /\ disp.shape.hasParams /\ disp.shape.params = <<161, 1, 2>>
  /\ crdtp__Dispatchable__ok(disp.d)
  /\ ~crdtp__Dispatchable__hasCallId(disp.d)

(***************************************************************************)
(* Codec harness: a Binary is built from a span and encoded, and a text    *)
(* (the encoder's or the caller's) is decoded.                             *)
(***************************************************************************)
InitCodec ==
  /\ IdleBin
  /\ IdleConv
  /\ IdleResp
  /\ IdleDisp
  /\ IdleMsg
  /\ decoded = <<>>
  /\ success = FALSE
  /\ utf8 = NoString
  /\ \/ /\ pc = "binary"
        /\ bytes_ \in Buffers
        /\ base64 = <<>>
        /\ textFrom = "none"
        /\ view = NoView
     \/ /\ pc = "text"
        /\ bytes_ = <<>>
        /\ base64 \in Texts
        /\ textFrom = "caller"
        /\ view = NoView
     \/ /\ pc = "view"
        /\ bytes_ = <<>>
        /\ base64 = <<>>
        /\ textFrom = "none"
        /\ view \in Views

\* String s = b.toBase64();
DoToBase64 ==
  /\ pc = "binary"
  /\ base64' = Binary_toBase64(bytes_)
  /\ textFrom' = "toBase64"
  /\ pc' = "text"
  /\ UNCHANGED <<bytes_, decoded, success, view, utf8>>
  /\ UNCHANGED <<respVars, dispVars, msgVars, convVars, binVars>>

\* Binary r = Binary::fromBase64(s, &success);
DoFromBase64 ==
  /\ pc = "text"
  /\ LET r == Binary_fromBase64(base64)
     IN  /\ decoded' = r.bytes
         /\ success' = r.success
  /\ pc' = "decoded"
  /\ UNCHANGED <<bytes_, base64, textFrom, view, utf8>>
  /\ UNCHANGED <<respVars, dispVars, msgVars, convVars, binVars>>

\* String s = StringUtil::fromUTF16(data, length);
DoFromUTF16 ==
  /\ pc = "view"
  /\ ~view.is8Bit
  /\ utf8' = [by |-> "fromUTF16", bytes |-> StringUtil_fromUTF16(view.chars, Len(view.chars))]
  /\ pc' = "string"
  /\ UNCHANGED <<bytes_, base64, textFrom, decoded, success, view>>
  /\ UNCHANGED <<respVars, dispVars, msgVars, convVars, binVars>>

\* String s = StringUtil::StringViewToUtf8(view);
DoStringViewToUtf8 ==
  /\ pc = "view"
  /\ utf8' = [by |-> "StringViewToUtf8", bytes |-> StringUtil_StringViewToUtf8(view)]
  /\ pc' = "string"
  /\ UNCHANGED <<bytes_, base64, textFrom, decoded, success, view>>
  /\ UNCHANGED <<respVars, dispVars, msgVars, convVars, binVars>>

NextCodec == DoToBase64 \/ DoFromBase64 \/ DoFromUTF16 \/ DoStringViewToUtf8

SpecCodec == InitCodec /\ [][NextCodec]_vars

(***************************************************************************)
(* Claims about the Binary codec                                           *)
(***************************************************************************)
IsAlphabetChar(c) ==
  \/ c \in 65..90
  \/ c \in 97..122
  \/ c \in 48..57
  \/ c = 43
  \/ c = 47

\* Index of the first '=' of a text, Len + 1 when it has none.
RECURSIVE FirstPad(_, _)
FirstPad(text, k) ==
  IF k > Len(text) THEN k
  ELSE IF text[k] = 61 THEN k
  ELSE FirstPad(text, k + 1)

\* Some char before the first '=' is outside the RFC 4648 alphabet.
HasBadCharBeforePad(text) ==
  \E k \in 1..(FirstPad(text, 1) - 1) : ~IsAlphabetChar(text[k])

\* C1: decoding the text that toBase64 produced for a buffer b succeeds and
\* returns a Binary whose size and bytes are those of b.
C1_RoundTrip ==
  (pc = "decoded" /\ textFrom = "toBase64") =>
    /\ success = TRUE
    /\ Len(decoded) = Len(bytes_)
    /\ decoded = bytes_

\* A four-byte buffer (one whole group and one byte over) whose encoding uses
\* '+' or '/' and ends in padding has been encoded and decoded.
C1_Witness ==
  /\ pc = "decoded"
  /\ textFrom = "toBase64"
  /\ Len(bytes_) = 4
  /\ \E k \in 1..Len(base64) : base64[k] \in {43, 47}
  /\ base64[Len(base64)] = 61

\* C2: a text with a non-alphabet byte before its first '=' makes fromBase64
\* set success to false and return an empty Binary, whatever was decoded
\* before the offending byte.
C2_BadCharFails ==
  (pc = "decoded" /\ HasBadCharBeforePad(base64)) =>
    /\ success = FALSE
    /\ Len(decoded) = 0

\* Two alphabet chars (one whole byte) precede the offending byte.
C2_Witness ==
  /\ pc = "decoded"
  /\ Len(base64) >= 3
  /\ IsAlphabetChar(base64[1])
  /\ IsAlphabetChar(base64[2])
  /\ ~IsAlphabetChar(base64[3])
  /\ base64[3] # 61
  /\ success = FALSE
  /\ decoded = <<>>

(***************************************************************************)
(* Envelope harness: the foreign side builds envelopes, receives one from  *)
(* a handler, serializes them and frees them. An object of the heap also   *)
(* remembers the call that made it (args).                                 *)
(***************************************************************************)
MaxObjs == 2      \* most Serializable objects allocated in one run

\* "Ping" as a C string, and the command { id: 7, method: "Ping", params: {} }
Name_Ping == <<80, 105, 110, 103>>
CStr_Ping == <<80, 105, 110, 103, 0>>
PingCommand ==
  EncodeCommand([kind |-> "command", hasId |-> TRUE, id |-> 7,
                 hasMethod |-> TRUE, method |-> Name_Ping,
                 hasSession |-> FALSE, session |-> <<115>>,
                 hasParams |-> TRUE, params |-> <<160>>])

\* The error responses the caller holds a wrapper of when the run starts.
ErrorWrappers ==
  {Built(crdtp__DispatchResponse__MethodNotFound(<<101>>, 1), "MethodNotFound", <<101>>, 1),
   Built(crdtp__DispatchResponse__ServerError(<<0, 101>>, 2), "ServerError", <<0, 101>>, 2)}

InitSer ==
  /\ IdleBin
  /\ IdleConv
  /\ IdleCodec
  /\ IdleDisp
  /\ IdleMsg
  /\ out = NoOut
  /\ ser = NoSer
  /\ \E w \in ErrorWrappers : resp = [s \in Slots |-> IF s = "r1" THEN w ELSE NoResp]

\* The heap h whose last object remembers the call that allocated it.
Tagged(h, args) ==
  [h EXCEPT ![Len(h)] = [v |-> h[Len(h)].v, live |-> h[Len(h)].live, args |-> args]]

\* The probe once p is the object under observation.
Observe(p) ==
  IF probe.of = p THEN probe ELSE [of |-> p, cbor |-> {}, bytes |-> {}, size |-> {}]

\* The probe once the caller has given p away or freed it.
Forget(p) == IF probe.of = p THEN NoProbe ELSE probe

\* crdtp__CreateResponse(call_id, params): the caller gives up params.
Ffi_CreateResponse(call_id, params) ==
  /\ Len(heap) < MaxObjs
  /\ params \in held \cup {0}
  /\ heap' = Tagged(crdtp__CreateResponse(heap, call_id, params),
                    [op |-> "CreateResponse", call_id |-> call_id, params |-> params])
  /\ held' = (held \ {params}) \cup {Len(heap) + 1}
  /\ probe' = Forget(params)
  /\ UNCHANGED <<fault, calls, codecVars, convVars, binVars, respVars, dispVars>>

\* crdtp__CreateNotification(method, params): the caller gives up params.
Ffi_CreateNotification(method, params) ==
  /\ Len(heap) < MaxObjs
  /\ params \in held \cup {0}
  /\ heap' = Tagged(crdtp__CreateNotification(heap, method, params),
                    [op |-> "CreateNotification", method |-> method, params |-> params])
  /\ held' = (held \ {params}) \cup {Len(heap) + 1}
  /\ probe' = Forget(params)
  /\ UNCHANGED <<fault, calls, codecVars, convVars, binVars, respVars, dispVars>>

\* crdtp__CreateErrorResponse(call_id, response): the wrapper stays with the
\* caller, its inner response moved-from.
Ffi_CreateErrorResponse(s, call_id) ==
  /\ Len(heap) < MaxObjs
  /\ resp[s].live
  /\ crdtp__DispatchResponse__isError(resp[s].w)
  /\ heap' = Tagged(crdtp__CreateErrorResponse(heap, call_id, resp[s].w),
                    [op |-> "CreateErrorResponse", call_id |-> call_id,
                     code |-> crdtp__DispatchResponse__code(resp[s].w),
                     message |-> crdtp__DispatchResponse__messageCopy(
                                   resp[s].w,
                                   Fresh(crdtp__DispatchResponse__messageLen(resp[s].w)))])
  /\ held' = held \cup {Len(heap) + 1}
  /\ \E m \in MovedFrom(resp[s].w.inner) :
       resp' = [resp EXCEPT ![s].w = DispatchResponseWrapper(m), ![s].moved = TRUE]
  /\ UNCHANGED <<fault, probe, calls, out, ser, codecVars, convVars, binVars, dispVars>>

\* The handler of "Ping" answers the command through the channel: the
\* foreign sendProtocolResponse callback receives the response.
Recv_PingResponse ==
  /\ Len(heap) + 2 <= MaxObjs
  /\ chan = <<>>
  /\ LET d == crdtp__Dispatchable__new(PingCommand, Len(PingCommand))
         r == crdtp__UberDispatcher__Dispatch(<<Name_Ping>>, d, 1, World)
         ran == crdtp__DispatchResult__Run(r.ret, r.world)
     IN  /\ heap' = Tagged(ran.world.heap, [op |-> "handler", command |-> PingCommand])
         /\ chan' = ran.world.chan
         /\ held' = held \cup {ran.world.chan[1].message}
  /\ UNCHANGED <<fault, probe, calls, codecVars, convVars, binVars, respVars,
                 registry, disp, dresult, nDispatch, handled>>

\* crdtp__Serializable__serializeToCBOR(self, out) with a vector from
\* crdtp__vec_u8__new(), which is empty
Ffi_serializeToCBOR(p) ==
  /\ p \in held
  /\ probe' = [Observe(p) EXCEPT
                 !.cbor = @ \cup {crdtp__Serializable__serializeToCBOR(heap, p, <<>>)}]
  /\ UNCHANGED <<heap, held, fault, calls, codecVars, convVars, binVars, respVars, dispVars>>

\* crdtp__Serializable__getSerializedSize(self)
Ffi_getSerializedSize(p) ==
  /\ p \in held
  /\ probe' = [Observe(p) EXCEPT
                 !.size = @ \cup {crdtp__Serializable__getSerializedSize(heap, p)}]
  /\ UNCHANGED <<heap, held, fault, calls, codecVars, convVars, binVars, respVars, dispVars>>

\* crdtp__Serializable__getSerializedBytes(self, out, len) with a buffer of
\* the size that getSerializedSize reported
Ffi_getSerializedBytes(p) ==
  /\ p \in held
  /\ probe.of = p
  /\ \E len \in probe.size :
       probe' = [probe EXCEPT
                   !.bytes = @ \cup {crdtp__Serializable__getSerializedBytes(
                                       heap, p, Fresh(len), len)}]
  /\ UNCHANGED <<heap, held, fault, calls, codecVars, convVars, binVars, respVars, dispVars>>

\* crdtp__Serializable__DELETE(self) by the owner of self
Ffi_DELETE(p) ==
  /\ p \in held
  /\ LET mem == crdtp__Serializable__DELETE([heap |-> heap, fault |-> fault], p)
     IN  /\ heap' = mem.heap
         /\ fault' = mem.fault
  /\ held' = held \ {p}
  /\ probe' = Forget(p)
  /\ UNCHANGED <<calls, codecVars, convVars, binVars, respVars, dispVars>>

Ptrs == 1..Len(heap)

NextSer ==
  \/ \E call_id \in CallIds, params \in Ptrs \cup {0} : Ffi_CreateResponse(call_id, params)
  \/ \E params \in Ptrs \cup {0} : Ffi_CreateNotification(CStr_Ping, params)
  \/ \E call_id \in CallIds : Ffi_CreateErrorResponse("r1", call_id)
  \/ Recv_PingResponse
  \/ \E p \in Ptrs : Ffi_serializeToCBOR(p)
  \/ \E p \in Ptrs : Ffi_getSerializedSize(p)
  \/ \E p \in Ptrs : Ffi_getSerializedBytes(p)
  \/ \E p \in Ptrs : Ffi_DELETE(p)

SpecSer == InitSer /\ [][NextSer]_vars

(***************************************************************************)
(* Claims about Serializable                                               *)
(***************************************************************************)
\* C11: whatever serialization calls have been made on one object, in any
\* order and any number of times, they all produced one and the same byte
\* sequence: serializeToCBOR into an empty vector and getSerializedBytes
\* into a buffer of the reported size wrote the same bytes, and every size
\* getSerializedSize reported is the length of those bytes.
C11_Idempotent ==
  probe.of # 0 =>
    /\ Cardinality(probe.cbor \cup probe.bytes) <= 1
    /\ Cardinality(probe.size) <= 1
    /\ \A b \in probe.cbor \cup probe.bytes : \A n \in probe.size : Len(b) = n

\* A notification that wraps a response was serialized in all three ways.
C11_Witness ==
  /\ probe.of # 0
  /\ heap[probe.of].v.kind = "notification"
  /\ Serializable_Params(heap[probe.of].v) # 0
  /\ probe.cbor # {} /\ probe.bytes # {} /\ probe.size # {}
  /\ probe.cbor = probe.bytes

\* The bytes of the value that `key` has among the `pairs` key/value pairs
\* read from pos on; <<>> when the key is absent.
RECURSIVE MapValue(_, _, _, _)
MapValue(bytes, pos, pairs, key) ==
  IF pairs = 0 THEN <<>>
  ELSE LET k == CborHead(bytes, pos)
           vpos == k.next + k.arg
           end == CborSkip(bytes, vpos, 1)
       IN  IF ~(k.ok /\ k.major = 3) \/ end = 0 THEN <<>>
           ELSE IF SubSeq(bytes, k.next, vpos - 1) = key THEN SubSeq(bytes, vpos, end - 1)
           ELSE MapValue(bytes, end, pairs - 1, key)

\* The value of `key` in the CBOR map `bytes`, as a reader of the message decodes it.
Field(bytes, key) ==
  LET h == CborHead(bytes, 1)
  IN  IF h.ok /\ h.major = 5 THEN MapValue(bytes, h.next, h.arg, key) ELSE <<>>

\* The number of pairs of the CBOR map `bytes`, -1 when it is no single map.
MapSize(bytes) ==
  LET h == CborHead(bytes, 1)
  IN  IF h.ok /\ h.major = 5 /\ CborSkip(bytes, 1, 1) = Len(bytes) + 1 THEN h.arg ELSE -1

\* The integer of a CBOR integer item, the bytes of a CBOR text item.
DecodeInt(item) ==
  LET h == CborHead(item, 1) IN IF h.major = 0 THEN h.arg ELSE -1 - h.arg
DecodeText(item) == SubSeq(item, CborHead(item, 1).next, Len(item))

\* What the object p serializes to.
Message(p) == crdtp__Serializable__serializeToCBOR(heap, p, <<>>)

C12_Response(m, a) ==
  /\ MapSize(m) = 2
  /\ DecodeInt(Field(m, KeyId)) = a.call_id
  /\ Field(m, KeyResult) # <<>>
  /\ a.params # 0 => Field(m, KeyResult) = Message(a.params)
  /\ Field(m, KeyError) = <<>>

C12_ErrorResponse(m, a) ==
  /\ MapSize(m) = 2
  /\ DecodeInt(Field(m, KeyId)) = a.call_id
  /\ MapSize(Field(m, KeyError)) = 2
  /\ DecodeInt(Field(Field(m, KeyError), KeyCode)) = a.code
  /\ DecodeText(Field(Field(m, KeyError), KeyMessage)) = a.message
  /\ Field(m, KeyResult) = <<>>

C12_Notification(m, a) ==
  /\ MapSize(m) = 2
  /\ DecodeText(Field(m, KeyMethod)) = Name_Ping
  /\ Field(m, KeyParams) # <<>>
  /\ a.params # 0 => Field(m, KeyParams) = Message(a.params)
  /\ Field(m, KeyId) = <<>>

\* { id: 7, result: {} }
C12_PingResponse(m) ==
  /\ MapSize(m) = 2
  /\ DecodeInt(Field(m, KeyId)) = 7
  /\ Field(m, KeyResult) = <<160>>
  /\ Field(m, KeyError) = <<>>

\* C12: every live envelope serializes to a single CBOR map that carries
\* what its builder was given. CreateResponse(callId, params): id = callId,
\* result = the serialization of params, no error. CreateErrorResponse(
\* callId, r): id = callId, error.code and error.message those read from r
\* before the call, no result. CreateNotification(method, params): that
\* method, those params, no id. The response of the "Ping" handler to
\* { id: 7, method: "Ping", params: {} } decodes to { id: 7, result: {} }.
C12_EnvelopeCorrelation ==
  \A p \in Ptrs :
    (heap[p].live /\ "args" \in DOMAIN heap[p]) =>
      LET a == heap[p].args
          m == Message(p)
      IN  /\ a.op = "CreateResponse" => C12_Response(m, a)
          /\ a.op = "CreateErrorResponse" => C12_ErrorResponse(m, a)
          /\ a.op = "CreateNotification" => C12_Notification(m, a)
          /\ a.op = "handler" => C12_PingResponse(m)

\* A response was built around the error response for ServerError "\0e".
C12_Witness ==
  \E p \in Ptrs :
    /\ heap[p].live /\ "args" \in DOMAIN heap[p]
    /\ heap[p].args.op = "CreateResponse"
    /\ heap[p].args.call_id = 7
    /\ heap[p].args.params # 0
    /\ heap[heap[p].args.params].args.op = "CreateErrorResponse"
    /\ heap[heap[p].args.params].args.message = <<0, 101>>
    /\ heap[heap[p].args.params].args.code = DispatchCode_SERVER_ERROR

(***************************************************************************)
(* Channel harness: C++ code (handlers, the dispatcher) calls the          *)
(* FrontendChannel, whose trampoline invokes the foreign callbacks; the    *)
(* foreign side builds envelopes around what it owns and frees what it     *)
(* owns.                                                                   *)
(***************************************************************************)
MaxCalls == 2     \* most calls made on the FrontendChannel in one run

InitChan ==
  /\ IdleBin
  /\ IdleConv
  /\ IdleCodec
  /\ IdleResp
  /\ IdleDisp
  /\ IdleMsg

ChanWorld == [chan |-> chan, heap |-> heap, fault |-> fault]

\* channel->SendProtocolResponse(call_id, CreateResponse(call_id, nullptr))
Cxx_SendProtocolResponse(call_id) ==
  /\ Len(heap) < MaxObjs /\ Len(calls) < MaxCalls
  /\ LET message == Len(heap) + 1
         made == [ChanWorld EXCEPT !.heap = New(heap, CreateResponse(call_id, 0))]
         w == SendProtocolResponse(made, call_id, message)
     IN  /\ heap' = w.heap
         /\ fault' = w.fault
         /\ chan' = w.chan
         /\ held' = held \cup {message}
         /\ calls' = Append(calls, [op |-> "SendProtocolResponse", call_id |-> call_id,
                                    message |-> message])
  /\ UNCHANGED <<probe, codecVars, convVars, binVars, respVars, registry, disp, dresult, nDispatch, handled>>

\* channel->SendProtocolNotification(CreateNotification("Ping", nullptr))
Cxx_SendProtocolNotification ==
  /\ Len(heap) < MaxObjs /\ Len(calls) < MaxCalls
  /\ LET message == Len(heap) + 1
         made == [ChanWorld EXCEPT !.heap = New(heap, CreateNotification(Name_Ping, 0))]
         w == SendProtocolNotification(made, message)
     IN  /\ heap' = w.heap
         /\ fault' = w.fault
         /\ chan' = w.chan
         /\ held' = held \cup {message}
         /\ calls' = Append(calls, [op |-> "SendProtocolNotification", message |-> message])
  /\ UNCHANGED <<probe, codecVars, convVars, binVars, respVars, registry, disp, dresult, nDispatch, handled>>

\* channel->FallThrough(call_id, method, message)
Cxx_FallThrough(call_id, method, message) ==
  /\ Len(calls) < MaxCalls
  /\ LET w == FallThrough(ChanWorld, call_id, method, message)
     IN  /\ heap' = w.heap
         /\ fault' = w.fault
         /\ chan' = w.chan
  /\ calls' = Append(calls, [op |-> "FallThrough", call_id |-> call_id,
                             method |-> method, message |-> message])
  /\ UNCHANGED <<held, probe, codecVars, convVars, binVars, respVars, registry, disp, dresult, nDispatch, handled>>

\* channel->FlushProtocolNotifications()
Cxx_FlushProtocolNotifications ==
  /\ Len(calls) < MaxCalls
  /\ LET w == FlushProtocolNotifications(ChanWorld)
     IN  /\ heap' = w.heap
         /\ fault' = w.fault
         /\ chan' = w.chan
  /\ calls' = Append(calls, [op |-> "FlushProtocolNotifications"])
  /\ UNCHANGED <<held, probe, codecVars, convVars, binVars, respVars, registry, disp, dresult, nDispatch, handled>>

NextChan ==
  \/ \E call_id \in CallIds : Cxx_SendProtocolResponse(call_id)
  \/ Cxx_SendProtocolNotification
  \/ \E call_id \in CallIds : Cxx_FallThrough(call_id, Name_FooBar, PingCommand)
  \/ Cxx_FlushProtocolNotifications
  \/ \E params \in Ptrs \cup {0} : Ffi_CreateResponse(7, params)
  \/ \E params \in Ptrs \cup {0} : Ffi_CreateNotification(CStr_Ping, params)
  \/ \E p \in Ptrs : Ffi_DELETE(p)

SpecChan == InitChan /\ [][NextChan]_vars

(***************************************************************************)
(* Claims about ownership and the channel                                  *)
(***************************************************************************)
\* The number of owners of object p: the foreign side when it holds p, and
\* every live envelope that has p as its params.
Owners(p) ==
  Count(p \in held)
    + Cardinality({q \in Ptrs : heap[q].live /\ Serializable_Params(heap[q].v) = p})

\* C13: a live Serializable has exactly one owner, either the foreign side
\* (which got it from a Create* function or from a sendProtocolResponse /
\* sendProtocolNotification callback) or the envelope it was given to as
\* params; a freed one has none, so nothing that can still be used or
\* deleted is freed; and no delete was ever applied to a freed object.
C13_SingleOwner ==
  /\ ~fault
  /\ \A p \in Ptrs :
       /\ heap[p].live => Owners(p) = 1
       /\ ~heap[p].live => Owners(p) = 0

\* A message the channel handed over was wrapped by CreateResponse and the
\* wrapper deleted: both objects are freed, each once.
C13_Witness ==
  /\ Len(heap) = 2
  /\ chan # <<>> /\ chan[1].cb = "sendProtocolNotification" /\ chan[1].message = 1
  /\ heap[2].v.kind = "response" /\ Serializable_Params(heap[2].v) = 1
  /\ ~heap[1].live /\ ~heap[2].live
  /\ held = {}
  /\ ~fault

\* The foreign callback that a call on the channel has to result in.
CallbackOf(c) ==
  IF c.op = "SendProtocolResponse"
  THEN [cb |-> "sendProtocolResponse", call_id |-> c.call_id, message |-> c.message]
  ELSE IF c.op = "SendProtocolNotification"
  THEN [cb |-> "sendProtocolNotification", message |-> c.message]
  ELSE IF c.op = "FallThrough"
  THEN [cb |-> "fallThrough", call_id |-> c.call_id, method |-> c.method,
        message |-> c.message]
  ELSE [cb |-> "flushProtocolNotifications"]

\* C14: whenever a call on the channel has returned, the foreign callbacks
\* invoked so far are, one for one and in the same order, those of the calls
\* made so far: the same kind, call id, message pointer and method and
\* message bytes, none dropped, duplicated or reordered.
C14_Fifo ==
  /\ Len(chan) = Len(calls)
  /\ \A i \in 1..Len(calls) : chan[i] = CallbackOf(calls[i])

\* A FallThrough for call 7 was followed by a response to call 0.
C14_Witness ==
  /\ Len(calls) = 2
  /\ calls[1].op = "FallThrough" /\ calls[1].call_id = 7
  /\ calls[2].op = "SendProtocolResponse" /\ calls[2].call_id = 0
  /\ chan[1].cb = "fallThrough" /\ chan[1].method = Name_FooBar
  /\ chan[2].cb = "sendProtocolResponse" /\ chan[2].message = calls[2].message

(***************************************************************************)
(* Claims about StringUtil                                                 *)
(***************************************************************************)
IsHighSurrogate(u) == u >= 55296 /\ u <= 56319
IsLowSurrogate(u) == u >= 56320 /\ u <= 57343

\* The UTF-8 encodings of a code point of 16 to 21 bits and of a 16-bit
\* value of more than 11 bits, written out from the definition of UTF-8.
Utf8Of4(cp) ==
  <<240 + (cp \div 262144), 128 + ((cp \div 4096) % 64), 128 + ((cp \div 64) % 64),
    128 + (cp % 64)>>
Utf8Of3(cp) == <<224 + (cp \div 4096), 128 + ((cp \div 64) % 64), 128 + (cp % 64)>>

FromUTF16Done == pc = "string" /\ utf8.by = "fromUTF16"

\* C15: wherever a high surrogate is immediately followed by a low one, the
\* output is the output for the units before the pair, then the four UTF-8
\* bytes of 0x10000 + ((high - 0xD800) << 10) + (low - 0xDC00), then the
\* output for the units after the pair; (0xD83D, 0xDE00) gives F0 9F 98 80.
C15_SurrogatePair ==
  FromUTF16Done =>
    LET data == view.chars
        n == Len(data)
    IN  /\ \A k \in 1..(n - 1) :
             (IsHighSurrogate(data[k]) /\ IsLowSurrogate(data[k + 1])) =>
               utf8.bytes =
                 StringUtil_fromUTF16(SubSeq(data, 1, k - 1), k - 1)
                   \o Utf8Of4(65536 + (data[k] - 55296) * 1024 + (data[k + 1] - 56320))
                   \o StringUtil_fromUTF16(SubSeq(data, k + 2, n), n - k - 1)
        /\ data = <<55357, 56832>> => utf8.bytes = <<240, 159, 152, 128>>

\* 'A' and the pair for U+1F600 were transcoded.
C15_Witness ==
  /\ FromUTF16Done
  /\ view.chars = <<65, 55357, 56832>>
  /\ utf8.bytes = <<65, 240, 159, 152, 128>>

\* C16: when the last code unit is a high surrogate, fromUTF16 returns the
\* output for the units before it followed by the three bytes that encode
\* its 16-bit value; no unit behind the buffer is read (the model has none
\* to read).
C16_LoneHighSurrogate ==
  (FromUTF16Done /\ view.chars # <<>> /\ IsHighSurrogate(view.chars[Len(view.chars)])) =>
    LET data == view.chars
        n == Len(data)
    IN  utf8.bytes = StringUtil_fromUTF16(SubSeq(data, 1, n - 1), n - 1) \o Utf8Of3(data[n])

\* The pair for U+1F600 followed by the lone high surrogate 0xDBFF.
C16_Witness ==
  /\ FromUTF16Done
  /\ view.chars = <<55357, 56832, 56319>>
  /\ utf8.bytes = <<240, 159, 152, 128, 237, 175, 191>>

\* C17: StringViewToUtf8 returns the chars of an 8-bit view unchanged, the
\* result of fromUTF16(characters16, length) for a 16-bit view, and the
\* empty string for a view of length 0.
C17_ViewDispatch ==
  (pc = "string" /\ utf8.by = "StringViewToUtf8") =>
    /\ view.is8Bit =>
         /\ Len(utf8.bytes) = Len(view.chars)
         /\ \A i \in 1..Len(view.chars) : utf8.bytes[i] = view.chars[i]
    /\ ~view.is8Bit => utf8.bytes = StringUtil_fromUTF16(view.chars, Len(view.chars))
    /\ Len(view.chars) = 0 => utf8.bytes = <<>>

\* An 8-bit view holding 0x80 and 0xFF came back byte for byte.
C17_Witness ==
  /\ pc = "string" /\ utf8.by = "StringViewToUtf8"
  /\ view.is8Bit
  /\ view.chars = <<65, 128, 255>>
  /\ utf8.bytes = <<65, 128, 255>>

(***************************************************************************)
(* Claims about the shape of the text Binary::toBase64 writes              *)
(***************************************************************************)
\* RFC 4648 section 4 by arithmetic: the 24-bit group of up to three bytes
\* (missing bytes count as 0) cut into four 6-bit indices into the alphabet,
\* the last 3 - k chars of a final group of k bytes replaced by '='.
Rfc4648Group(g) ==
  LET k == Len(g)
      v == (g[1] * 65536) + ((IF k >= 2 THEN g[2] ELSE 0) * 256) + (IF k >= 3 THEN g[3] ELSE 0)
  IN  << kBase64Chars[(v \div 262144) + 1],
         kBase64Chars[((v \div 4096) % 64) + 1],
         IF k >= 2 THEN kBase64Chars[((v \div 64) % 64) + 1] ELSE 61,
         IF k >= 3 THEN kBase64Chars[(v % 64) + 1] ELSE 61 >>

RECURSIVE Rfc4648(_)
Rfc4648(b) ==
  IF Len(b) = 0 THEN <<>>
  ELSE IF Len(b) <= 3 THEN Rfc4648Group(b)
  ELSE Rfc4648Group(SubSeq(b, 1, 3)) \o Rfc4648(SubSeq(b, 4, Len(b)))

PadCount(n) == (3 - (n % 3)) % 3

\* C18: the text toBase64 wrote for a buffer of n bytes has 4 * ceil(n / 3)
\* chars, all of the alphabet A-Z a-z 0-9 + / but the last (3 - n mod 3) mod 3,
\* which are '='; it has no CR or LF, is empty for the empty buffer, is the
\* RFC 4648 encoding of the buffer, and is a function of the buffer alone.
C18_PaddedShape ==
  textFrom = "toBase64" =>
    LET n == Len(bytes_)
        len == Len(base64)
        pad == PadCount(n)
    IN  /\ len = 4 * ((n + 2) \div 3)
        /\ pad <= len
        /\ \A k \in 1..(len - pad) : IsAlphabetChar(base64[k])
        /\ \A k \in (len - pad + 1)..len : base64[k] = 61
        /\ \A k \in 1..len : base64[k] \notin {10, 13}
        /\ n = 0 => base64 = <<>>
        /\ base64 = Rfc4648(bytes_)
        /\ base64 = Binary_toBase64(bytes_)

\* A two-byte buffer was encoded to three alphabet chars, '/' among them,
\* and one '='.
C18_Witness ==
  /\ pc = "text"
  /\ textFrom = "toBase64"
  /\ bytes_ = <<255, 251>>
  /\ base64 = <<47, 47, 115, 61>>


(***************************************************************************)
(* Claims about what Binary::fromBase64 rejects                            *)
(***************************************************************************)
\* RFC 4648 padding: the length is a multiple of 4 and '=' occurs only as
\* the last one or two chars.
WellPadded(text) ==
  LET len == Len(text)
      p == FirstPad(text, 1)
  IN  /\ len % 4 = 0
      /\ p >= len - 1
      /\ \A k \in p..len : text[k] = 61

RECURSIVE TwoTo(_)
TwoTo(k) == IF k = 0 THEN 1 ELSE 2 * TwoTo(k - 1)

\* Bit i (0-based, most significant first) of the stream of 6-bit values that
\* the chars of a text stand for.
StreamBit(text, i) ==
  (kBase64DecodeTable[text[(i \div 6) + 1] + 1] \div TwoTo(5 - (i % 6))) % 2

RECURSIVE StreamByte(_, _, _)
\* The number that bits i .. i + n - 1 of the stream spell.
StreamByte(text, i, n) ==
  IF n = 0 THEN 0
  ELSE (StreamByte(text, i, n - 1) * 2) + StreamBit(text, i + n - 1)

\* The whole bytes held by the first d chars of a text, the 6d mod 8 bits
\* left over dropped.
WholeBytes(text, d) ==
  [j \in 1..((6 * d) \div 8) |-> StreamByte(text, 8 * (j - 1), 8)]

\* C19 as stated: a text whose '=' padding is missing, misplaced or of the
\* wrong count for its length makes fromBase64 set success to false.
C19_BadPaddingFails ==
  (pc = "decoded" /\ ~WellPadded(base64)) => success = FALSE

\* C19 as amended: fromBase64 sets success to false exactly when a byte
\* outside the alphabet precedes the first '='; otherwise, whatever the
\* length of the text and wherever its '=' are, success is true and the
\* result holds the whole bytes of the chars before the first '='.
C19_OnlyAlphabetFails ==
  pc = "decoded" =>
    LET d == FirstPad(base64, 1) - 1
    IN  /\ success = ~HasBadCharBeforePad(base64)
        /\ success => decoded = WholeBytes(base64, d)
        /\ ~success => decoded = <<>>

\* "Az=A", with '=' in third place of four and a data char after it, was
\* decoded to the one byte "Az" holds.
C19_Witness ==
  /\ pc = "decoded"
  /\ base64 = <<65, 122, 61, 65>>
  /\ ~WellPadded(base64)
  /\ success = TRUE
  /\ decoded = <<3>>


(***************************************************************************)
(* Conversion harness: a JSON text is handed to                            *)
(* crdtp__json__ConvertJSONToCBOR with a vector that is fresh from         *)
(* crdtp__vec_u8__new or holds the bytes of an earlier use.                *)
(***************************************************************************)
\* '{' '}' '[' ']' '"' ':' ',' '0' '1' '-' 'a'
JsonChars == {123, 125, 91, 93, 34, 58, 44, 48, 49, 45, 97}

\* RFC 8259 texts, as C string literals:
\*   "{\"a\":1}"
\*   "{\"a\":[1,\"a\"]}"
\*   " [ 1 , -1 ] "
\*   "null"
\*   "true"
\*   "[false,null]"
\*   "{\"a\":{\"a\":-10}}"
\*   "\"a\\\"\\n\""
\*   "{ \"a\" : \"\" , \"a\" : 0 }\n"
\*   "{ \"a\" : \"\" , \"b\" : [ -1 ] }\n"
\*   "[[],{}]"
ValidJsonSamples ==
  { <<123, 34, 97, 34, 58, 49, 125>>,
    <<123, 34, 97, 34, 58, 91, 49, 44, 34, 97, 34, 93, 125>>,
    <<32, 91, 32, 49, 32, 44, 32, 45, 49, 32, 93, 32>>,
    <<110, 117, 108, 108>>,
    <<116, 114, 117, 101>>,
    <<91, 102, 97, 108, 115, 101, 44, 110, 117, 108, 108, 93>>,
    <<123, 34, 97, 34, 58, 123, 34, 97, 34, 58, 45, 49, 48, 125, 125>>,
    <<34, 97, 92, 34, 92, 110, 34>>,
    <<123, 32, 34, 97, 34, 32, 58, 32, 34, 34, 32, 44, 32, 34, 97, 34, 32, 58, 32, 48, 32, 125, 10>>,
    <<123, 32, 34, 97, 34, 32, 58, 32, 34, 34, 32, 44, 32, 34, 98, 34, 32, 58, 32, 91, 32, 45, 49, 32, 93, 32, 125, 10>>,
    <<91, 91, 93, 44, 123, 125, 93>> }

\* Texts that are not RFC 8259 texts:
\*   "{\"a\":1,}"
\*   "{\"a\" 1}"
\*   "[1,]"
\*   "{\"a\":1}x"
\*   "\"a"
\*   "nul"
\*   "{1:1}"
\*   "   "
\*   "[1 1]"
\*   "{\"a\":01}"
\*   "\"\\a\""
\*   "[1]]"
\*   "{\"a\":1"
\*   "-"
\*   "[,1]"
InvalidJsonSamples ==
  { <<123, 34, 97, 34, 58, 49, 44, 125>>,
    <<123, 34, 97, 34, 32, 49, 125>>,
    <<91, 49, 44, 93>>,
    <<123, 34, 97, 34, 58, 49, 125, 120>>,
    <<34, 97>>,
    <<110, 117, 108>>,
    <<123, 49, 58, 49, 125>>,
    <<32, 32, 32>>,
    <<91, 49, 32, 49, 93>>,
    <<123, 34, 97, 34, 58, 48, 49, 125>>,
    <<34, 92, 97, 34>>,
    <<91, 49, 93, 93>>,
    <<123, 34, 97, 34, 58, 49>>,
    <<45>>,
    <<91, 44, 49, 93>> }

JsonTexts == SeqsUpTo(JsonChars, MaxJson) \cup ValidJsonSamples \cup InvalidJsonSamples

PriorVecs == {<<>>, <<246>>}

\* Heads and payload bytes of CBOR items: 1, 24 (one argument byte follows),
\* -1, a byte string and a text string of one byte, an array and a map of
\* one item, false, null, a float16 head, and the text string of two bytes.
CborBytes == {1, 24, 32, 65, 97, 98, 129, 161, 244, 246, 249}

\* Messages as they arrive from the wire, well-formed or not: every string
\* of up to MaxCbor of these bytes, and a command and a damaged one.
CborTexts ==
  SeqsUpTo(CborBytes, MaxCbor)
    \cup { <<162, 98, 105, 100, 1, 102, 109, 101, 116, 104, 111, 100, 99, 97, 46, 98>>,
           <<162, 98, 105, 100, 1, 102, 109, 101, 116, 104, 111, 100, 99, 97, 46>>,
           <<130, 66, 255, 251, 97, 34>> }

\* "[1]": what the output vector holds from an earlier use
PriorJson == {<<>>, <<91, 49, 93>>}

InitConv ==
  /\ IdleBin
  /\ IdleCodec
  /\ IdleResp
  /\ IdleDisp
  /\ IdleMsg
  /\ vec_u8 \in PriorVecs
  /\ conv_ret = NoRet
  /\ c2j_vec \in PriorJson
  /\ c2j_ret = NoRet
  /\ \/ /\ conv_in \in JsonTexts
        /\ c2j_in = NoBytes
     \/ /\ conv_in = <<>>
        /\ c2j_in \in {[from |-> "wire", bytes |-> b] : b \in CborTexts}

\* bool ok = crdtp__json__ConvertJSONToCBOR(json_data, json_len, cbor_out);
Do_ConvertJSONToCBOR ==
  /\ conv_ret = NoRet
  /\ LET r == crdtp__json__ConvertJSONToCBOR(conv_in, Len(conv_in), vec_u8)
     IN  /\ vec_u8' = r.cbor_out
         /\ conv_ret' = [of |-> "ConvertJSONToCBOR", value |-> r.ret, prior |-> vec_u8]
  /\ UNCHANGED <<conv_in, c2j_in, c2j_vec, c2j_ret, codecVars, respVars, dispVars, msgVars, binVars>>

\* size_t n = crdtp__vec_u8__size(cbor_out); crdtp__vec_u8__copy(cbor_out, buf);
Do_vec_u8_copy ==
  /\ conv_ret.of = "ConvertJSONToCBOR"
  /\ c2j_in = NoBytes
  /\ LET buf == [i \in 1..crdtp__vec_u8__size(vec_u8) |-> 0]
     IN  c2j_in' = [from |-> "ConvertJSONToCBOR", bytes |-> crdtp__vec_u8__copy(vec_u8, buf)]
  /\ UNCHANGED <<conv_in, vec_u8, conv_ret, c2j_vec, c2j_ret>>
  /\ UNCHANGED <<codecVars, respVars, dispVars, msgVars, binVars>>

\* bool ok = crdtp__json__ConvertCBORToJSON(cbor_data, cbor_len, json_out);
Do_ConvertCBORToJSON ==
  /\ c2j_in # NoBytes
  /\ c2j_ret = NoRet
  /\ LET r == crdtp__json__ConvertCBORToJSON(c2j_in.bytes, Len(c2j_in.bytes), c2j_vec)
     IN  /\ c2j_vec' = r.json_out
         /\ c2j_ret' = [of |-> "ConvertCBORToJSON", value |-> r.ret, prior |-> c2j_vec]
  /\ UNCHANGED <<conv_in, vec_u8, conv_ret, c2j_in>>
  /\ UNCHANGED <<codecVars, respVars, dispVars, msgVars, binVars>>

NextConv == Do_ConvertJSONToCBOR \/ Do_vec_u8_copy \/ Do_ConvertCBORToJSON

SpecConv == InitConv /\ [][NextConv]_vars

(***************************************************************************)
(* Claims about the JSON / CBOR conversion                                 *)
(***************************************************************************)
\* The RFC 8259 grammar as a generator: the texts of at most n chars over
\* JsonChars (which has no white space and no backslash) that are a value.
IsJsonNumber(t) ==
  LET body == IF t[1] = 45 THEN Tail(t) ELSE t
  IN  /\ Len(body) >= 1
      /\ \A k \in 1..Len(body) : body[k] \in 48..57
      /\ body[1] = 48 => Len(body) = 1

JsonNumbers(n) == {t \in SeqsUpTo({45, 48, 49}, n) : Len(t) >= 1 /\ IsJsonNumber(t)}

JsonStrings(n) ==
  IF n < 2 THEN {} ELSE {<<34>> \o t \o <<34>> : t \in SeqsUpTo(JsonChars \ {34}, n - 2)}

RECURSIVE JsonValues(_)
RECURSIVE JsonLists(_)
RECURSIVE JsonMembers(_)

\* value (',' value)*
JsonLists(n) ==
  IF n < 1 THEN {}
  ELSE JsonValues(n) \cup
       {t \in {v \o <<44>> \o l : v \in JsonValues(n - 2), l \in JsonLists(n - 2)} : Len(t) <= n}

\* string ':' value (',' string ':' value)*
JsonMembers(n) ==
  IF n < 4 THEN {}
  ELSE LET one == {t \in {k \o <<58>> \o v : k \in JsonStrings(n - 2), v \in JsonValues(n - 3)} :
                     Len(t) <= n}
       IN  one \cup {t \in {m \o <<44>> \o r : m \in one, r \in JsonMembers(n - 5)} : Len(t) <= n}

JsonValues(n) ==
  IF n < 1 THEN {}
  ELSE JsonNumbers(n) \cup JsonStrings(n)
       \cup (IF n >= 2 THEN {<<91, 93>>, <<123, 125>>} ELSE {})
       \cup {<<91>> \o l \o <<93>> : l \in JsonLists(n - 2)}
       \cup {<<123>> \o m \o <<125>> : m \in JsonMembers(n - 2)}

ShortJsonValues == JsonValues(MaxJson)

JsonIsValid(text) == text \in ShortJsonValues \/ text \in ValidJsonSamples

\* C20: after crdtp__json__ConvertJSONToCBOR on a text that is not JSON the
\* vector is empty and the call returned false; on a JSON text the vector is
\* not empty and the call returned true; always the bool returned says
\* whether the vector is non-empty after the call.
C20_EmptyOnFailure ==
  conv_ret.of = "ConvertJSONToCBOR" =>
    /\ ~JsonIsValid(conv_in) => (Len(vec_u8) = 0 /\ conv_ret.value = FALSE)
    /\ JsonIsValid(conv_in) => (Len(vec_u8) > 0 /\ conv_ret.value = TRUE)
    /\ conv_ret.value = (Len(vec_u8) > 0)

\* "[1,]" was converted into a vector that held a byte: the vector came
\* back empty and the call returned false.
C20_Witness ==
  /\ conv_ret.of = "ConvertJSONToCBOR"
  /\ conv_in = <<91, 49, 44, 93>>
  /\ conv_ret.prior = <<246>>
  /\ vec_u8 = <<>>
  /\ conv_ret.value = FALSE

\* C21: crdtp__json__ConvertCBORToJSON returns true exactly when the Status
\* of the conversion is ok, and the vector then holds the JSON text produced
\* (a text the JSON parser accepts); bytes that are not one well-formed CBOR
\* item make it return false.
C21_ExplicitStatus ==
  c2j_ret.of = "ConvertCBORToJSON" =>
    LET cbor == c2j_in.bytes
        status == json_ConvertCBORToJSON(cbor)
    IN  /\ c2j_ret.value = status.ok
        /\ c2j_ret.value => c2j_vec = status.json
        /\ c2j_ret.value => Len(json_ConvertJSONToCBOR(c2j_vec, <<>>)) > 0
        /\ CborSkip(cbor, 1, 1) # Len(cbor) + 1 => c2j_ret.value = FALSE

\* The command {id: 1, method: "a.b"} arrived and was written as
\* {"id":1,"method":"a.b"} into a vector that held "[1]".
C21_Witness ==
  /\ c2j_ret.of = "ConvertCBORToJSON"
  /\ c2j_in.from = "wire"
  /\ c2j_in.bytes = <<162, 98, 105, 100, 1, 102, 109, 101, 116, 104, 111, 100, 99, 97, 46, 98>>
  /\ c2j_ret.value = TRUE
  /\ c2j_vec = <<123, 34, 105, 100, 34, 58, 49, 44, 34, 109, 101, 116, 104, 111, 100, 34, 58, 34, 97, 46, 98, 34, 125>>

\* A text with the white space outside its strings removed.
RECURSIVE StripWhitespace(_, _, _)
StripWhitespace(j, pos, inString) ==
  IF pos > Len(j) THEN <<>>
  ELSE IF inString /\ j[pos] = 92 /\ pos < Len(j)
       THEN <<92, j[pos + 1]>> \o StripWhitespace(j, pos + 2, TRUE)
  ELSE IF j[pos] = 34 THEN <<34>> \o StripWhitespace(j, pos + 1, ~inString)
  ELSE IF ~inString /\ j[pos] \in {32, 9, 10, 13} THEN StripWhitespace(j, pos + 1, FALSE)
  ELSE <<j[pos]>> \o StripWhitespace(j, pos + 1, inString)

\* "-0" occurs in a text.
HasMinusZero(j) == \E k \in 1..(Len(j) - 1) : j[k] = 45 /\ j[k + 1] = 48

\* C22: a JSON text converted into a fresh vector, the bytes of that vector
\* converted back: both calls return true and the text that comes back is
\* the text that went in with the white space outside strings removed (-0
\* comes back as 0), which stands for the same value. The texts are those
\* of JsonIsValid; their objects have distinct keys but for one sample, and
\* their integers are of at most two digits.
C22_RoundTrip ==
  ( /\ c2j_ret.of = "ConvertCBORToJSON"
    /\ c2j_in.from = "ConvertJSONToCBOR"
    /\ conv_ret.prior = <<>>
    /\ JsonIsValid(conv_in) ) =>
      /\ conv_ret.value = TRUE
      /\ c2j_ret.value = TRUE
      /\ json_ConvertJSONToCBOR(c2j_vec, <<>>) = json_ConvertJSONToCBOR(conv_in, <<>>)
      /\ ~HasMinusZero(conv_in) => c2j_vec = StripWhitespace(conv_in, 1, FALSE)

\* { "a" : "" , "b" : [ -1 ] } and a line feed, an object whose two keys
\* differ and whose only number is -1, came back as {"a":"","b":[-1]}.
C22_Witness ==
  /\ c2j_ret.of = "ConvertCBORToJSON"
  /\ c2j_in.from = "ConvertJSONToCBOR"
  /\ conv_ret.prior = <<>>
  /\ conv_ret.value = TRUE
  /\ c2j_ret.value = TRUE
  /\ conv_in = <<123, 32, 34, 97, 34, 32, 58, 32, 34, 34, 32, 44, 32, 34, 98, 34, 32, 58, 32, 91, 32, 45, 49, 32, 93, 32, 125, 10>>
  /\ c2j_vec = <<123, 34, 97, 34, 58, 34, 34, 44, 34, 98, 34, 58, 91, 45, 49, 93, 125>>

\* C29: when crdtp__json__ConvertCBORToJSON returns false the vector is as
\* it was before the call; when it returns true the vector holds what the
\* call writes into an empty vector, whatever it held before.
C29_OutputFrame ==
  c2j_ret.of = "ConvertCBORToJSON" =>
    LET cbor == c2j_in.bytes IN
    /\ ~c2j_ret.value => c2j_vec = c2j_ret.prior
    /\ c2j_ret.value =>
         c2j_vec = crdtp__json__ConvertCBORToJSON(cbor, Len(cbor), <<>>).json_out

\* A command cut short arrived; the vector still holds the "[1]" it held.
C29_Witness ==
  /\ c2j_ret.of = "ConvertCBORToJSON"
  /\ c2j_in.bytes = <<162, 98, 105, 100, 1, 102, 109, 101, 116, 104, 111, 100, 99, 97, 46>>
  /\ c2j_ret.value = FALSE
  /\ c2j_ret.prior = <<91, 49, 93>>
  /\ c2j_vec = <<91, 49, 93>>


(***************************************************************************)
(* Binary (string_util.h): a value that shares one std::vector<uint8_t>    *)
(* through bytes_, a std::shared_ptr. `bufs` is the sequence of the        *)
(* vectors allocated so far, each with its use count; a Binary is the      *)
(* index of the vector it points to. A vector whose count drops to zero    *)
(* is destroyed.                                                           *)
(***************************************************************************)
\* std::make_shared<std::vector<uint8_t>>(...): one more vector, used once
make_shared(heap_, v) == Append(heap_, [bytes |-> v, refs |-> 1])

\* Copying a shared_ptr
shared_ptr_copy(heap_, p) == [heap_ EXCEPT ![p].refs = @ + 1]

\* Destroying a shared_ptr; the last one destroys the vector
shared_ptr_reset(heap_, p) ==
  [heap_ EXCEPT ![p] = IF @.refs = 1 THEN [bytes |-> <<>>, refs |-> 0]
                                      ELSE [@ EXCEPT !.refs = @ - 1]]

\* Binary::data() and Binary::size() of the Binary whose bytes_ is p
Binary_data(heap_, p) == heap_[p].bytes
Binary_size(heap_, p) == Len(heap_[p].bytes)

\* Binary::fromSpan(data, size) with an off-by-one end iterator
Binary_fromSpan_short(span_data, size) ==
  SubSeq(span_data, 1, IF size > 0 THEN size - 1 ELSE 0)

\* Binary::fromSpan(data, size): the vector constructed from [data, data + size)
Binary_fromSpan(span_data, size) == SubSeq(span_data, 1, size)

\* total_size of Binary::concat
RECURSIVE concatTotalSize(_, _)
concatTotalSize(binaries, k) ==
  IF k > Len(binaries) THEN 0
  ELSE Len(binaries[k]) + concatTotalSize(binaries, k + 1)

\* The copy loop of Binary::concat without `data_ptr += binary.size()`
RECURSIVE concatLoop_noAdvance(_, _, _, _)
concatLoop_noAdvance(binaries, k, bytes, data_ptr) ==
  IF k > Len(binaries) THEN bytes
  ELSE concatLoop_noAdvance(binaries, k + 1,
         [i \in 1..Len(bytes) |->
            IF i > data_ptr /\ i <= data_ptr + Len(binaries[k])
            THEN binaries[k][i - data_ptr] ELSE bytes[i]],
         data_ptr)

\* The copy loop of Binary::concat from the k-th binary on; data_ptr is the
\* offset into bytes that the pointer has reached.
RECURSIVE concatLoop(_, _, _, _)
concatLoop(binaries, k, bytes, data_ptr) ==
  IF k > Len(binaries) THEN bytes
  ELSE concatLoop(binaries, k + 1,
         [i \in 1..Len(bytes) |->
            IF i > data_ptr /\ i <= data_ptr + Len(binaries[k])
            THEN binaries[k][i - data_ptr] ELSE bytes[i]],
         data_ptr + Len(binaries[k]))

\* Binary::concat(binaries): the bytes of the new vector, given the bytes of
\* each binary in order
Binary_concat(binaries) ==
  LET total_size == concatTotalSize(binaries, 1)
  IN  concatLoop(binaries, 1, [i \in 1..total_size |-> 0], 0)

(***************************************************************************)
(* ProtocolTypeTraits<Binary> (string_util.cc) over the CBOR tokenizer     *)
(* and encoder of v8_crdtp (crdtp/cbor.h). A DeserializerState is the      *)
(* bytes being read and the position of the current token.                 *)
(***************************************************************************)
\* cbor::CBORTokenizer::TokenTag() of the current token
TokenTag(state) ==
  LET h == CborHead(state.bytes, state.pos) IN
  IF ~h.ok THEN "ERROR_VALUE"
  ELSE IF h.major \in {2, 3} /\ h.next + h.arg - 1 > Len(state.bytes) THEN "ERROR_VALUE"
  ELSE IF h.major = 2 THEN "BINARY"
  ELSE IF h.major = 3 THEN "STRING8"
  ELSE "OTHER"

\* cbor::CBORTokenizer::GetBinary(): the payload of a BINARY token
GetBinary(state) ==
  LET h == CborHead(state.bytes, state.pos)
  IN  SubSeq(state.bytes, h.next, h.next + h.arg - 1)

\* cbor::EncodeBinary(in, out): a byte string, major type 2
EncodeBinary(in) == EncHead(2, Len(in)) \o in

\* ProtocolTypeTraits<Binary>::Deserialize(state, value): the bool returned
\* and *value (the bytes of the Binary) after the call
ProtocolTypeTraits_Binary_Deserialize(state, value) ==
  IF TokenTag(state) # "BINARY" THEN [ret |-> FALSE, value |-> value]
  ELSE [ret |-> TRUE, value |-> Binary_fromSpan(GetBinary(state), Len(GetBinary(state)))]

\* ProtocolTypeTraits<Binary>::Serialize(value, bytes): *bytes after the call
ProtocolTypeTraits_Binary_Serialize(value, bytes) ==
  bytes \o EncString8(Binary_toBase64(value))


(***************************************************************************)
(* Binary harness: the caller hands its own bytes to Binary::fromSpan and  *)
(* may rewrite them afterwards; Binary values are copied, destroyed,       *)
(* concatenated, encoded and serialized, and a byte string is received     *)
(* from the peer and deserialized. Each Binary remembers the bytes it was  *)
(* built with (made).                                                      *)
(***************************************************************************)
MaxBins == 2      \* most Binary objects constructed in one run, the result of a last concat aside

\* The caller's bytes, and the payloads the peer sends
Sources == {<<255, 251>>}
PeerPayloads == {<<>>, <<255, 251>>}

\* A destroyed Binary
Destroyed == [live |-> FALSE, ptr |-> 0, made |-> <<>>]

LiveBins == {b \in 1..Len(bins) : bins[b].live}

InitBin ==
  /\ source \in Sources
  /\ bufs = <<>>
  /\ bins = <<>>
  /\ b64 = NoText
  /\ wire = NoWire
  /\ deser = NoDeser
  /\ IdleCodec
  /\ IdleResp
  /\ IdleDisp
  /\ IdleMsg
  /\ IdleConv


otherVars == <<codecVars, respVars, dispVars, msgVars, convVars>>

\* Binary b = Binary::fromSpan(source.data(), size);
Do_fromSpan(size) ==
  /\ Len(bins) < MaxBins
  /\ bufs' = make_shared(bufs, Binary_fromSpan(source, size))
  /\ bins' = Append(bins, [live |-> TRUE, ptr |-> Len(bufs) + 1,
                           made |-> SubSeq(source, 1, size)])
  /\ UNCHANGED <<source, b64, wire, deser, otherVars>>

\* The caller clears one of its own bytes after handing them to fromSpan
Do_WriteSource(i) ==
  /\ i \in 1..Len(source)
  /\ bins # <<>>
  /\ source[i] # 0
  /\ source' = [source EXCEPT ![i] = 0]
  /\ UNCHANGED <<bufs, bins, b64, wire, deser, otherVars>>

\* Binary copy = b;   (the implicit copy constructor copies bytes_)
Do_Copy(b) ==
  /\ b \in LiveBins
  /\ Len(bins) < MaxBins
  /\ bufs' = shared_ptr_copy(bufs, bins[b].ptr)
  /\ bins' = Append(bins, [live |-> TRUE, ptr |-> bins[b].ptr,
                           made |-> bins[b].made])
  /\ UNCHANGED <<source, b64, wire, deser, otherVars>>

\* b goes out of scope   (the implicit destructor destroys bytes_)
Do_Destroy(b) ==
  /\ b \in LiveBins
  /\ bufs' = shared_ptr_reset(bufs, bins[b].ptr)
  /\ bins' = [bins EXCEPT ![b] = Destroyed]
  /\ UNCHANGED <<source, b64, wire, deser, otherVars>>

\* Binary c = Binary::concat({b1, b2});
Do_concat(b1, b2) ==
  /\ b1 \in LiveBins
  /\ b2 \in LiveBins
  /\ Len(bins) <= MaxBins
  /\ bufs' = make_shared(bufs, Binary_concat(<<Binary_data(bufs, bins[b1].ptr),
                                               Binary_data(bufs, bins[b2].ptr)>>))
  /\ bins' = Append(bins, [live |-> TRUE, ptr |-> Len(bufs) + 1,
                           made |-> bins[b1].made \o bins[b2].made])
  /\ UNCHANGED <<source, b64, wire, deser, otherVars>>

\* String text = b.toBase64();
Do_toBase64(b) ==
  /\ b \in LiveBins
  /\ b64 = NoText
  /\ wire = NoWire
  /\ b64' = [of |-> b, text |-> Binary_toBase64(Binary_data(bufs, bins[b].ptr))]
  /\ UNCHANGED <<source, bufs, bins, wire, deser, otherVars>>

\* ProtocolTypeTraits<Binary>::Serialize(b, &bytes); with bytes empty
Do_Serialize(b) ==
  /\ b \in LiveBins
  /\ wire = NoWire
  /\ b64 = NoText
  /\ wire' = [from |-> "Serialize", payload |-> bins[b].made,
              bytes |-> ProtocolTypeTraits_Binary_Serialize(
                          Binary_data(bufs, bins[b].ptr), <<>>)]
  /\ UNCHANGED <<source, bufs, bins, b64, deser, otherVars>>

\* The peer sends a byte string (major type 2) before anything else happens
Do_ReceiveBinary(payload) ==
  /\ wire = NoWire
  /\ bins = <<>>
  /\ wire' = [from |-> "peer", payload |-> payload, bytes |-> EncodeBinary(payload)]
  /\ UNCHANGED <<source, bufs, bins, b64, deser, otherVars>>

\* Binary value; bool ok = ProtocolTypeTraits<Binary>::Deserialize(&state, &value);
\* value is default-constructed (an empty vector) and assigned on success.
Do_Deserialize ==
  /\ wire # NoWire
  /\ deser = NoDeser
  /\ Len(bins) < MaxBins
  /\ LET r == ProtocolTypeTraits_Binary_Deserialize([bytes |-> wire.bytes, pos |-> 1], <<>>)
     IN  /\ bufs' = make_shared(bufs, r.value)
         /\ bins' = Append(bins, [live |-> TRUE, ptr |-> Len(bufs) + 1,
                                  made |-> IF r.ret THEN wire.payload ELSE <<>>])
         /\ deser' = [from |-> wire.from, ret |-> r.ret, value |-> Len(bins) + 1]
  /\ UNCHANGED <<source, b64, wire, otherVars>>

NextBin ==
  \/ \E size \in 0..2 : size <= Len(source) /\ Do_fromSpan(size)
  \/ \E i \in 1..2 : Do_WriteSource(i)
  \/ \E b \in 1..MaxBins + 1 : Do_Copy(b)
  \/ \E b \in 1..MaxBins + 1 : Do_Destroy(b)
  \/ \E b1 \in 1..MaxBins + 1, b2 \in 1..MaxBins + 1 : Do_concat(b1, b2)
  \/ \E b \in 1..MaxBins + 1 : Do_toBase64(b)
  \/ \E b \in 1..MaxBins + 1 : Do_Serialize(b)
  \/ \E payload \in PeerPayloads : Do_ReceiveBinary(payload)
  \/ Do_Deserialize

SpecBin == InitBin /\ [][NextBin]_vars


(***************************************************************************)
(* Claims about Binary values                                              *)
(***************************************************************************)
\* C23: on the CBOR transport a Binary is a native byte string: what
\* ProtocolTypeTraits<Binary>::Serialize writes for a Binary b is the
\* byte-string (BINARY) item holding the raw bytes of b, and Deserialize
\* of what Serialize wrote succeeds and yields the bytes of b.
C23_NativeByteString ==
  /\ wire.from = "Serialize" => wire.bytes = EncodeBinary(wire.payload)
  /\ deser.from = "Serialize" =>
       /\ deser.ret
       /\ bins[deser.value].live =>
            Binary_data(bufs, bins[deser.value].ptr) = wire.payload

\* The bytes and the size observed through the b-th Binary
Observed(b) == Binary_data(bufs, bins[b].ptr)

\* C24: the contents of a Binary never mutate once constructed. Every live
\* Binary shows the bytes it was built with (the span as it was when
\* fromSpan was called; the inputs of concat in order, so that the size is
\* the sum of theirs), its buffer is alive, and no step (a write to the
\* source, toBase64, concat, a copy or the destruction of another Binary)
\* changes the bytes or the size seen through a Binary that stays alive.
C24_ContentsNeverMutate ==
  /\ [](\A b \in LiveBins :
          /\ bufs[bins[b].ptr].refs >= 1
          /\ Observed(b) = bins[b].made
          /\ Binary_size(bufs, bins[b].ptr) = Len(bins[b].made))
  /\ [][\A b \in LiveBins :
          bins'[b].live =>
            /\ Binary_data(bufs', bins'[b].ptr) = Observed(b)
            /\ Binary_size(bufs', bins'[b].ptr) = Binary_size(bufs, bins[b].ptr)]_vars

\* Two Binary values made by fromSpan from spans of two bytes and of one, the
\* source cleared afterwards, their concatenation built and encoded, and the
\* first input destroyed: the others still show their bytes.
C24_Witness ==
  /\ Len(bins) = 3
  /\ source = <<0, 0>>
  /\ ~bins[1].live
  /\ bins[2].live /\ Observed(2) = <<255>>
  /\ bins[3].live /\ Observed(3) = <<255, 251, 255>>
  /\ b64 = [of |-> 3, text |-> <<47, 47, 118, 47>>]


(***************************************************************************)
(* Copy-out harness: the foreign side builds envelopes and copies their    *)
(* serialization into a buffer of its own with a len of its choice. The    *)
(* buffer has one byte more than len and is filled with 0xAA, so that a    *)
(* write at index len shows. The last call is logged with what the buffer  *)
(* held before and after it and with what serializeToCBOR writes for the   *)
(* same object.                                                            *)
(***************************************************************************)
Filled(n) == [i \in 1..n |-> 170]

InitCopy ==
  /\ IdleBin
  /\ IdleConv
  /\ IdleCodec
  /\ IdleResp
  /\ IdleDisp
  /\ IdleMsg

\* crdtp__Serializable__getSerializedBytes(self, out, len)
Do_getSerializedBytes(p, len) ==
  /\ p \in held
  /\ calls' =
       <<[op |-> "getSerializedBytes", self |-> p, len |-> len,
          before |-> Filled(len + 1),
          after |-> crdtp__Serializable__getSerializedBytes(heap, p, Filled(len + 1), len),
          size |-> crdtp__Serializable__getSerializedSize(heap, p),
          cbor |-> crdtp__Serializable__serializeToCBOR(heap, p, <<>>)]>>
  /\ UNCHANGED <<heap, held, fault, probe, codecVars, convVars, binVars, respVars, dispVars>>

NextCopy ==
  \/ \E call_id \in CallIds, params \in Ptrs \cup {0} : Ffi_CreateResponse(call_id, params)
  \/ \E params \in Ptrs \cup {0} : Ffi_CreateNotification(CStr_Ping, params)
  \/ \E p \in Ptrs : \E len \in 0..(crdtp__Serializable__getSerializedSize(heap, p) + 1) :
       Do_getSerializedBytes(p, len)
  \/ \E p \in Ptrs : Ffi_DELETE(p)

SpecCopy == InitCopy /\ [][NextCopy]_vars

(***************************************************************************)
(* Claims about crdtp__Serializable__getSerializedBytes                    *)
(***************************************************************************)
Min(a, b) == IF a < b THEN a ELSE b

\* C26: getSerializedBytes(self, out, len) writes exactly min(len, S) bytes,
\* S the serialized size of self: out[0 .. min(len, S)) holds the first
\* min(len, S) bytes of the serialization, every byte of out from index
\* min(len, S) on is as it was (so nothing is written at or beyond len),
\* and with len < S the caller is left with a proper prefix of the message.
C26_BoundedCopy ==
  \A c \in 1..Len(calls) :
    LET call == calls[c]
        S == call.size
        n == Min(call.len, S)
    IN  /\ S = Len(call.cbor)
        /\ Len(call.after) = Len(call.before)
        /\ SubSeq(call.after, 1, n) = SubSeq(call.cbor, 1, n)
        /\ \A i \in (n + 1)..Len(call.after) : call.after[i] = call.before[i]
        /\ call.len < S => SubSeq(call.after, 1, call.len) # call.cbor

\* The response { id: 7, result: {} }, 13 bytes, was copied with len 12: the
\* buffer holds its first 12 bytes and the byte at index 12 is untouched.
C26_Witness ==
  /\ Len(calls) = 1
  /\ calls[1].cbor = <<162, 98, 105, 100, 7, 102, 114, 101, 115, 117, 108, 116, 160>>
  /\ calls[1].size = 13
  /\ calls[1].len = 12
  /\ calls[1].after = SubSeq(calls[1].cbor, 1, 12) \o <<170>>


(***************************************************************************)
(* Move harness: the caller holds one error wrapper, hands it to the two   *)
(* error builders as often as it likes (freeing each envelope before the   *)
(* next), reads its message and frees it.                                  *)
(***************************************************************************)
InitMove ==
  /\ IdleBin
  /\ IdleConv
  /\ IdleCodec
  /\ IdleResp
  /\ IdleDisp
  /\ IdleMsg

NextMove ==
  \/ \E msg \in Messages : New_ParseError("r1", msg)
  \/ \E msg \in Messages : New_ServerError("r1", msg)
  \/ \E call_id \in CallIds : Do_CreateErrorResponse("r1", call_id)
  \/ Do_CreateErrorNotification("r1")
  \/ Do_messageCopy("r1")
  \/ Delete_Serializable
  \/ Delete_Response("r1")

SpecMove == InitMove /\ [][NextMove]_vars

(***************************************************************************)
(* Claims about the wrapper an error builder has consumed                  *)
(***************************************************************************)
\* A step in which crdtp__CreateErrorResponse or
\* crdtp__CreateErrorNotification returns an envelope
BuilderStep == ser = NoSer /\ ser' # NoSer

\* C27: the error builders move the response out of the wrapper and do not
\* free the wrapper. The envelope gets the code and the message the wrapper
\* held when the builder was called; after the call the wrapper is still
\* live with the same code, its message being either the one it had or
\* empty; it stops being live only in a crdtp__DispatchResponse__DELETE
\* step, which builds and frees no envelope, and a freed wrapper is not
\* handed to anything until a constructor fills the slot again.
C27_MovedNotFreed ==
  /\ [][BuilderStep =>
          /\ resp["r1"].live /\ resp'["r1"].live
          /\ resp'["r1"].moved
          /\ ser'.error = [code |-> crdtp__DispatchResponse__code(resp["r1"].w),
                           message |-> DispatchResponse_Message(resp["r1"].w.inner)]
          /\ crdtp__DispatchResponse__code(resp'["r1"].w)
               = crdtp__DispatchResponse__code(resp["r1"].w)
          /\ DispatchResponse_Message(resp'["r1"].w.inner)
               \in {<<>>, DispatchResponse_Message(resp["r1"].w.inner)}]_vars
  /\ [][(resp["r1"].live /\ ~resp'["r1"].live) => (ser = NoSer /\ ser' = NoSer)]_vars
  /\ [][(~resp["r1"].live /\ resp'["r1"].live) => ~resp'["r1"].moved]_vars

\* The wrapper built by ServerError("e") was handed to a builder twice and
\* is still live; the second envelope, a notification, carries an empty
\* message where the first carried "e".
C27_Witness ==
  /\ resp["r1"].live /\ resp["r1"].moved
  /\ resp["r1"].ctor = "ServerError" /\ resp["r1"].msg = <<101>>
  /\ ser # NoSer
  /\ ser.kind = "notification"
  /\ ser.error = [code |-> DispatchCode_SERVER_ERROR, message |-> <<>>]


(***************************************************************************)
(* Claims about what Binary::fromBase64 reads of a text                    *)
(***************************************************************************)
\* C28: fromBase64 decodes only the chars before the first '=' (all of the
\* text when it has none). When these are k alphabet chars it succeeds with
\* exactly floor(6k / 8) bytes, the whole bytes of their 6-bit values, the
\* 6k mod 8 (0, 2, 4 or 6) bits left over dropped; and whatever follows the
\* first '=' does not matter: the text cut before its first '=', and that
\* prefix followed by '=' and one more char ('-', outside the alphabet, or
\* 'A'), decode to the same bytes.
C28_PrefixDecoded ==
  (pc = "decoded" /\ ~HasBadCharBeforePad(base64)) =>
    LET k == FirstPad(base64, 1) - 1
        prefix == SubSeq(base64, 1, k)
    IN  /\ success = TRUE
        /\ Len(decoded) = (6 * k) \div 8
        /\ (6 * k) % 8 \in {0, 2, 4, 6}
        /\ decoded = WholeBytes(prefix, k)
        /\ Binary_fromBase64(prefix) = [success |-> TRUE, bytes |-> decoded]
        /\ \A c \in {45, 65} :
             Binary_fromBase64(prefix \o <<61, c>>) = [success |-> TRUE, bytes |-> decoded]

\* "Az=-", with a char outside the alphabet after the '=', was decoded to the
\* one byte 0x03 that "Az" holds, its four bits left over dropped; "Az" alone
\* decodes to the same byte, and encoding that byte gives "Aw==", not the text.
C28_Witness ==
  /\ pc = "decoded"
  /\ base64 = <<65, 122, 61, 45>>
  /\ success = TRUE
  /\ decoded = <<3>>
  /\ Binary_fromBase64(<<65, 122>>).bytes = decoded
  /\ Binary_toBase64(decoded) = <<65, 119, 61, 61>>
  /\ Binary_toBase64(decoded) # base64


(***************************************************************************)
(* Claims about the length of what StringUtil::fromUTF16 writes            *)
(***************************************************************************)
\* UTF-8 of a 16-bit value taken on its own, a surrogate included
Utf8OfUnit(u) ==
  IF u < 128 THEN <<u>>
  ELSE IF u < 2048 THEN <<192 + (u \div 64), 128 + (u % 64)>>
  ELSE Utf8Of3(u)

BytesOfUnit(u) == IF u < 128 THEN 1 ELSE IF u < 2048 THEN 2 ELSE 3

\* Whether units k and k + 1 (1-based) are a high surrogate and a low one
PairAt(units, k) ==
  k < Len(units) /\ IsHighSurrogate(units[k]) /\ IsLowSurrogate(units[k + 1])

\* Every unit taken once, left to right: a pair gives its four bytes, any
\* other unit (an unpaired surrogate too) its own one, two or three.
RECURSIVE UnitByUnit(_, _)
UnitByUnit(units, k) ==
  IF k > Len(units) THEN <<>>
  ELSE IF PairAt(units, k)
       THEN Utf8Of4(65536 + (units[k] - 55296) * 1024 + (units[k + 1] - 56320))
              \o UnitByUnit(units, k + 2)
       ELSE Utf8OfUnit(units[k]) \o UnitByUnit(units, k + 1)

\* 4 per composed pair plus 1, 2 or 3 per unit outside a pair
RECURSIVE LengthByUnit(_, _)
LengthByUnit(units, k) ==
  IF k > Len(units) THEN 0
  ELSE IF PairAt(units, k) THEN 4 + LengthByUnit(units, k + 2)
       ELSE BytesOfUnit(units[k]) + LengthByUnit(units, k + 1)

\* C30: fromUTF16 is total and takes every code unit exactly once. Its
\* output is the units encoded left to right, a high surrogate followed by
\* a low one as the four bytes of the pair, and every other unit on its own
\* (a high surrogate with no low one behind it and a low surrogate with no
\* high one before it as three bytes; the unit after an unpaired high
\* surrogate neither skipped nor merged). The length is 4 per pair plus 1, 2
\* or 3 per other unit and is at most 3 * length; fromUTF16LE returns the same.
C30_EveryUnitOnce ==
  FromUTF16Done =>
    LET data == view.chars
        n == Len(data)
    IN  /\ utf8.bytes = UnitByUnit(data, 1)
        /\ Len(utf8.bytes) = LengthByUnit(data, 1)
        /\ Len(utf8.bytes) <= 3 * n
        /\ \A i \in 1..Len(utf8.bytes) : utf8.bytes[i] \in 0..255
        /\ StringUtil_fromUTF16LE(data, n) = utf8.bytes

\* The high surrogate 0xD83D, then 'A', then the low surrogate 0xDC00: no
\* pair, three bytes for each surrogate and one for 'A' between them.
C30_Witness ==
  /\ FromUTF16Done
  /\ view.chars = <<55357, 65, 56320>>
  /\ utf8.bytes = <<237, 160, 189, 65, 237, 176, 128>>

=============================================================================
